---- MODULE Spec2Model ----
(***************************************************************************)
(* gyro-maze: the procedural level generator (js/game/LevelGenerator.js),  *)
(* the game engine's level session (js/game/GameEngine.js) and the lives   *)
(* kept by the storage manager (js/game/UpgradeManager.js).                *)
(*                                                                         *)
(* Four specifications share the module:                                   *)
(*   SpecMaze     generateMazeGrid, one loop iteration per step, every     *)
(*                value of rng() a nondeterministic choice;                *)
(*   SpecLevels   generateLevel(1..100) called on one LevelGenerator       *)
(*                instance in any order, a call and its return as two      *)
(*                steps, driven by the instance's own congruential stream; *)
(*   Spec         the engine's session on a level with pickups: the public *)
(*                methods, frame callbacks, the interval and the timeouts  *)
(*                of powerups and of the time warp;                        *)
(*   SpecSession  the engine's session on a level with a hole, under the   *)
(*                wall clock and the stored lives.                         *)
(***************************************************************************)
EXTENDS Integers, Sequences, FiniteSets, TLC

VARIABLES
    \* LevelGenerator instance
    seed,           \* this.seed
    requested,      \* levelNum of the generateLevel call in progress, or 0
    level,          \* the MazeDefinition that the last call returned, or NoLevel
    generated,      \* the number of generateLevel calls that have returned
    \* one call of generateMazeGrid in progress (SpecMaze)
    cols, rows,     \* its arguments
    grid,           \* grid[row][col] = [visited, walls: [top, right, bottom, left]]
    stack,          \* the backtracking stack, a sequence of [row, col]
    pc,             \* "carve" | "extra" | "done"
    passagesLeft,   \* iterations of the extra-passage loop still to run
    \* the engine's session
    engine,         \* the fields of the GameEngine instance
    browser,        \* performance.now(), requested frames, scheduled timeouts
    storage,        \* the shop data: lives, and whether time_control is bought
    events,         \* the callbacks invoked by the last step, in order
    runningTime     \* history: time spent running and not paused since start()

genVars  == <<seed, requested, level, generated>>
mazeVars == <<cols, rows, grid, stack, pc, passagesLeft>>
mazeCells == <<cols, rows, grid, stack, passagesLeft>>
engineVars == <<engine, browser, storage, events, runningTime>>
vars     == <<seed, requested, level, generated,
              cols, rows, grid, stack, pc, passagesLeft,
              engine, browser, storage, events, runningTime>>

(***************************************************************************)
(* Bounds                                                                  *)
(***************************************************************************)
\* generateMazeGrid is explored on every grid of at most MaxCells cells
MaxCells == 15
\* generateLevel calls made on one LevelGenerator instance
MaxGenerations == 2

(***************************************************************************)
(* LevelGenerator.random: the linear congruential generator.  rng() returns *)
(* seed / 233280 after stepping the seed; Math.floor(rng() * n) is          *)
(* therefore floor(seed * n / 233280), computed here on the integers.       *)
(***************************************************************************)
LcgMultiplier == 9301
LcgIncrement  == 49297
LcgModulus    == 233280
InitialSeed   == 12345
LevelSeedPrime == 7919

\* a random() that keeps the stream of the earlier generations running
randomContinue(levelSeed, oldSeed) == oldSeed

\* random(levelSeed): this.seed = levelSeed, whatever the seed was before.
random(levelSeed, oldSeed) == levelSeed

\* one call of the closure returned by random(): the new this.seed,
\* (seed * 9301 + 49297) % 233280.  The product is formed in two parts,
\* 9301 = (9301 \div 100) * 100 + 9301 % 100, to stay within 32-bit integers.
rng(s) ==
    LET high == ((s * (LcgMultiplier \div 100)) % LcgModulus) * 100
        low  == s * (LcgMultiplier % 100)
    IN  (high + low + LcgIncrement) % LcgModulus

\* Math.floor(rng() * n), given the seed that rng() has just produced
floorTimes(s, n) == (s * n) \div LcgModulus

\* F applied to the value of v: v is evaluated once, before F, the way a
\* statement's result exists before the next statement runs
Bind(v, F(_)) == CHOOSE r \in {F(x) : x \in {v}} : TRUE

\* this.seed after two, three and four calls of rng()
rng2(s) == rng(rng(s))
rng3(s) == rng(rng2(s))
rng4(s) == rng(rng3(s))

(***************************************************************************)
(* generateMazeGrid and its helpers                                        *)
(***************************************************************************)
NewCell == [visited |-> FALSE,
            walls |-> [top |-> TRUE, right |-> TRUE, bottom |-> TRUE, left |-> TRUE]]

\* lines 125-130: the cells pushed for columns 0 .. ncols - 1
RECURSIVE newRow(_)
newRow(ncols) ==
    IF ncols = 1 THEN 0 :> NewCell
    ELSE newRow(ncols - 1) @@ ((ncols - 1) :> NewCell)

\* lines 123-131: rows 0 .. nrows - 1
RECURSIVE newGrid(_, _)
newGrid(ncols, nrows) ==
    IF nrows = 1 THEN 0 :> newRow(ncols)
    ELSE newGrid(ncols, nrows - 1) @@ ((nrows - 1) :> newRow(ncols))

\* lines 184-201: top, right, bottom, left, in this order
getUnvisitedNeighbors(g, row, col, nrows, ncols) ==
    (IF row > 0 /\ ~g[row - 1][col].visited
        THEN <<[row |-> row - 1, col |-> col]>> ELSE <<>>)
    \o (IF col < ncols - 1 /\ ~g[row][col + 1].visited
        THEN <<[row |-> row, col |-> col + 1]>> ELSE <<>>)
    \o (IF row < nrows - 1 /\ ~g[row + 1][col].visited
        THEN <<[row |-> row + 1, col |-> col]>> ELSE <<>>)
    \o (IF col > 0 /\ ~g[row][col - 1].visited
        THEN <<[row |-> row, col |-> col - 1]>> ELSE <<>>)

\* a removeWallBetween that forgets the neighbour's side of the wall
removeWallOneSided(g, current, next) ==
    IF next.row - current.row = -1
    THEN [g EXCEPT ![current.row][current.col].walls.top = FALSE]
    ELSE IF next.row - current.row = 1
    THEN [g EXCEPT ![current.row][current.col].walls.bottom = FALSE]
    ELSE IF next.col - current.col = 1
    THEN [g EXCEPT ![current.row][current.col].walls.right = FALSE]
    ELSE IF next.col - current.col = -1
    THEN [g EXCEPT ![current.row][current.col].walls.left = FALSE]
    ELSE g

\* lines 203-220
removeWallBetween(g, current, next) ==
    IF next.row - current.row = -1
    THEN [g EXCEPT ![current.row][current.col].walls.top = FALSE,
                   ![next.row][next.col].walls.bottom = FALSE]
    ELSE IF next.row - current.row = 1
    THEN [g EXCEPT ![current.row][current.col].walls.bottom = FALSE,
                   ![next.row][next.col].walls.top = FALSE]
    ELSE IF next.col - current.col = 1
    THEN [g EXCEPT ![current.row][current.col].walls.right = FALSE,
                   ![next.row][next.col].walls.left = FALSE]
    ELSE IF next.col - current.col = -1
    THEN [g EXCEPT ![current.row][current.col].walls.left = FALSE,
                   ![next.row][next.col].walls.right = FALSE]
    ELSE g

\* lines 138-139: the start cell is marked and pushed
carveStart(ncols, nrows) ==
    [grid  |-> [newGrid(ncols, nrows) EXCEPT ![nrows - 1][0].visited = TRUE],
     stack |-> <<[row |-> nrows - 1, col |-> 0]>>]

\* lines 142-156, one iteration of the while loop that finds unvisited
\* neighbours; k = Math.floor(rng() * neighbors.length)
carvePush(g, st, nrows, ncols, k) ==
    Bind(getUnvisitedNeighbors(g, st[Len(st)].row, st[Len(st)].col, nrows, ncols)[k + 1],
         LAMBDA next :
            [grid  |-> [removeWallBetween(g, st[Len(st)], next)
                            EXCEPT ![next.row][next.col].visited = TRUE],
             stack |-> Append(st, next)])

\* a pop that gives up the whole path at the first dead end
carveAbandon(st) == <<>>

\* line 146
carvePop(st) == SubSeq(st, 1, Len(st) - 1)

\* line 160: Math.floor(cols * rows * 0.08)
extraPassages(ncols, nrows) == (ncols * nrows * 8) \div 100

\* an extra passage that clears the flag of the drawn cell alone, on the
\* border as well
addPassageOneSided(g, row, col, dir, nrows, ncols) ==
    IF dir = 0 THEN [g EXCEPT ![row][col].walls.top = FALSE]
    ELSE IF dir = 1 THEN [g EXCEPT ![row][col].walls.right = FALSE]
    ELSE IF dir = 2 THEN [g EXCEPT ![row][col].walls.bottom = FALSE]
    ELSE [g EXCEPT ![row][col].walls.left = FALSE]

\* lines 166-178, one iteration of the extra-passage loop
addPassage(g, row, col, dir, nrows, ncols) ==
    IF dir = 0 /\ row > 0
    THEN [g EXCEPT ![row][col].walls.top = FALSE, ![row - 1][col].walls.bottom = FALSE]
    ELSE IF dir = 1 /\ col < ncols - 1
    THEN [g EXCEPT ![row][col].walls.right = FALSE, ![row][col + 1].walls.left = FALSE]
    ELSE IF dir = 2 /\ row < nrows - 1
    THEN [g EXCEPT ![row][col].walls.bottom = FALSE, ![row + 1][col].walls.top = FALSE]
    ELSE IF dir = 3 /\ col > 0
    THEN [g EXCEPT ![row][col].walls.left = FALSE, ![row][col - 1].walls.right = FALSE]
    ELSE g

\* lines 141-157 driven by the seeded stream: one test of the while
\* condition and, when the stack is not empty, one iteration
carveIteration(c, nrows, ncols) ==
    IF Len(c.stack) = 0 THEN c
    ELSE Bind(getUnvisitedNeighbors(c.grid, c.stack[Len(c.stack)].row,
                                    c.stack[Len(c.stack)].col, nrows, ncols),
              LAMBDA neighbors :
                IF Len(neighbors) = 0
                THEN [c EXCEPT !.stack = carvePop(c.stack)]
                ELSE Bind(carvePush(c.grid, c.stack, nrows, ncols,
                                    floorTimes(rng(c.seed), Len(neighbors))),
                          LAMBDA step :
                            [grid |-> step.grid, stack |-> step.stack, seed |-> rng(c.seed)]))

\* n iterations of the while loop, in two halves
RECURSIVE carveLoop(_, _, _, _)
carveLoop(c, n, nrows, ncols) ==
    IF n = 0 THEN c
    ELSE IF n = 1 THEN carveIteration(c, nrows, ncols)
    ELSE Bind(carveLoop(c, n \div 2, nrows, ncols),
              LAMBDA half :
                IF Len(half.stack) = 0 THEN half
                ELSE carveLoop(half, n - n \div 2, nrows, ncols))

\* lines 162-178 driven by the seeded stream: row, col, dir drawn in this order
extraPassage(st, nrows, ncols) ==
    [grid |-> addPassage(st.grid, floorTimes(rng(st.seed), nrows),
                         floorTimes(rng2(st.seed), ncols),
                         floorTimes(rng3(st.seed), 4), nrows, ncols),
     seed |-> rng3(st.seed)]

\* lines 161-179
RECURSIVE extraLoop(_, _, _, _)
extraLoop(st, left, nrows, ncols) ==
    IF left = 0 THEN st
    ELSE Bind(extraPassage(st, nrows, ncols),
              LAMBDA next : extraLoop(next, left - 1, nrows, ncols))

\* lines 120-182.  Every iteration of the while loop pushes a cell that was
\* not visited or pops one, so 2 * cols * rows iterations empty the stack.
generateMazeGrid(ncols, nrows, s) ==
    Bind(carveStart(ncols, nrows), LAMBDA begin :
    Bind(carveLoop([grid |-> begin.grid, stack |-> begin.stack, seed |-> s],
                   2 * ncols * nrows, nrows, ncols), LAMBDA carved :
        extraLoop([grid |-> carved.grid, seed |-> carved.seed],
                  extraPassages(ncols, nrows), nrows, ncols)))

(***************************************************************************)
(* generateLevel.  Positions (x, y, originalX, originalY, offsetX, offsetY) *)
(* are kept in half pixels, twice the source's value, because               *)
(* offsetX = (width - cols * cellSize) / 2 can be a half; lengths (width,   *)
(* height, radius, cellSize, range) are in pixels as in the source.         *)
(***************************************************************************)
WallThickness == 8
HoleAttempts == 30
PowerupAttempts == 20
BouncePadAttempts == 20
SpeedZoneAttempts == 15
\* iterations granted to the coin top-up loop, which the source does not bound
TopUpFuel == 40

Max(a, b) == IF a >= b THEN a ELSE b
Min(a, b) == IF a <= b THEN a ELSE b

\* lines 479-503
getDifficulty(levelNum) ==
    IF levelNum <= 5 THEN [name |-> "Easy", complexity |-> 1, holes |-> 1, sizeBonus |-> 0]
    ELSE IF levelNum <= 10 THEN [name |-> "Easy", complexity |-> 1, holes |-> 2, sizeBonus |-> 0]
    ELSE IF levelNum <= 20 THEN [name |-> "Easy", complexity |-> 2, holes |-> 3, sizeBonus |-> 15]
    ELSE IF levelNum <= 30 THEN [name |-> "Medium", complexity |-> 3, holes |-> 4, sizeBonus |-> 30]
    ELSE IF levelNum <= 40 THEN [name |-> "Medium", complexity |-> 4, holes |-> 5, sizeBonus |-> 50]
    ELSE IF levelNum <= 50 THEN [name |-> "Hard", complexity |-> 5, holes |-> 6, sizeBonus |-> 70]
    ELSE IF levelNum <= 60 THEN [name |-> "Hard", complexity |-> 6, holes |-> 7, sizeBonus |-> 90]
    ELSE IF levelNum <= 70 THEN [name |-> "Expert", complexity |-> 7, holes |-> 8, sizeBonus |-> 110]
    ELSE IF levelNum <= 80 THEN [name |-> "Expert", complexity |-> 8, holes |-> 9, sizeBonus |-> 130]
    ELSE IF levelNum <= 90 THEN [name |-> "Master", complexity |-> 9, holes |-> 10, sizeBonus |-> 150]
    ELSE [name |-> "Master", complexity |-> 10, holes |-> 12, sizeBonus |-> 170]

\* lines 42-48: the canvas and the grid laid on it
levelSize(levelNum) ==
    Bind(getDifficulty(levelNum), LAMBDA difficulty :
        [width    |-> 300 + difficulty.sizeBonus,
         height   |-> 420 + (difficulty.sizeBonus * 12) \div 10,
         cellSize |-> Max(50, 70 - difficulty.complexity * 2),
         cols     |-> (300 + difficulty.sizeBonus - 60)
                        \div Max(50, 70 - difficulty.complexity * 2),
         rows     |-> (420 + (difficulty.sizeBonus * 12) \div 10 - 60)
                        \div Max(50, 70 - difficulty.complexity * 2)])

\* lines 32-66: canvas, grid dimensions, offsets, start and goal
levelGeometry(levelNum) ==
    Bind(levelSize(levelNum), LAMBDA size :
    Bind(size.width - size.cols * size.cellSize, LAMBDA offsetX :
    Bind(size.height - size.rows * size.cellSize, LAMBDA offsetY :
        [width |-> size.width, height |-> size.height, cellSize |-> size.cellSize,
         cols |-> size.cols, rows |-> size.rows, offsetX |-> offsetX, offsetY |-> offsetY,
         ballRadius |-> Max(6, 12 - levelNum \div 20),
         start |-> [x |-> offsetX + size.cellSize,
                    y |-> offsetY + 2 * (size.rows - 1) * size.cellSize + size.cellSize],
         goal  |-> [x |-> offsetX + 2 * (size.cols - 1) * size.cellSize + size.cellSize,
                    y |-> offsetY + size.cellSize,
                    radius |-> Max(14, 22 - levelNum \div 25)]])))

\* offsetX + col * cellSize + cellSize / 2 (and the same for y), in half pixels
cellCentre(geo, col, row) ==
    [x |-> geo.offsetX + 2 * col * geo.cellSize + geo.cellSize,
     y |-> geo.offsetY + 2 * row * geo.cellSize + geo.cellSize]

\* Math.round of a half-pixel value, again in half pixels
round(v) == 2 * ((v + 1) \div 2)

\* (x - a.x) ** 2 + (y - a.y) ** 2, in half pixels squared
dist2(a, b) == (a.x - b.x) * (a.x - b.x) + (a.y - b.y) * (a.y - b.y)

\* Math.sqrt(...) < cellSize * num / den
closerThan(a, b, cellSize, num, den) ==
    dist2(a, b) * den * den < 4 * cellSize * cellSize * num * num

\* Math.sqrt(...) > cellSize
fartherThan(a, b, cellSize) == dist2(a, b) > 4 * cellSize * cellSize

\* lines 238-275: the rectangles pushed for the cell at row, col whose top
\* left corner is at x, y
wallsAt(g, geo, row, col, x, y) ==
    (IF g[row][col].walls.top /\ row > 0
     THEN <<[x |-> x, y |-> y - WallThickness,
             width |-> geo.cellSize, height |-> WallThickness]>>
     ELSE <<>>)
    \o (IF g[row][col].walls.left /\ col > 0
        THEN <<[x |-> x - WallThickness, y |-> y,
                width |-> WallThickness, height |-> geo.cellSize]>>
        ELSE <<>>)
    \o (IF (g[row][col].walls.top \/ g[row][col].walls.left) /\ row > 0 /\ col > 0
           /\ (g[row][col].walls.top \/ g[row][col].walls.left
               \/ g[row - 1][col].walls.left \/ g[row][col - 1].walls.top)
        THEN <<[x |-> x - WallThickness, y |-> y - WallThickness,
                width |-> WallThickness, height |-> WallThickness]>>
        ELSE <<>>)

\* cell number i, counted row by row
wallsOfCell(g, geo, i) ==
    wallsAt(g, geo, i \div geo.cols, i % geo.cols,
            geo.offsetX + 2 * (i % geo.cols) * geo.cellSize,
            geo.offsetY + 2 * (i \div geo.cols) * geo.cellSize)

\* lines 236-277: cells lo..hi, in order
RECURSIVE cellWalls(_, _, _, _)
cellWalls(g, geo, lo, hi) ==
    IF lo > hi THEN <<>>
    ELSE IF lo = hi THEN wallsOfCell(g, geo, lo)
    ELSE cellWalls(g, geo, lo, (lo + hi) \div 2)
            \o cellWalls(g, geo, (lo + hi) \div 2 + 1, hi)

\* lines 280-290: rows row .. rows - 1 of the right edge
RECURSIVE rightEdgeWalls(_, _, _)
rightEdgeWalls(g, geo, row) ==
    IF row >= geo.rows THEN <<>>
    ELSE (IF g[row][geo.cols - 1].walls.right
          THEN <<[x |-> geo.offsetX + 2 * geo.cols * geo.cellSize - WallThickness,
                  y |-> geo.offsetY + 2 * row * geo.cellSize,
                  width |-> WallThickness, height |-> geo.cellSize]>>
          ELSE <<>>)
         \o rightEdgeWalls(g, geo, row + 1)

\* lines 292-303: columns col .. cols - 1 of the bottom edge
RECURSIVE bottomEdgeWalls(_, _, _)
bottomEdgeWalls(g, geo, col) ==
    IF col >= geo.cols THEN <<>>
    ELSE (IF g[geo.rows - 1][col].walls.bottom
          THEN <<[x |-> geo.offsetX + 2 * col * geo.cellSize,
                  y |-> geo.offsetY + 2 * geo.rows * geo.cellSize - WallThickness,
                  width |-> geo.cellSize, height |-> WallThickness]>>
          ELSE <<>>)
         \o bottomEdgeWalls(g, geo, col + 1)

\* lines 222-306: the wall rectangles in the order the source pushes them
mazeToWalls(g, geo) ==
    <<[x |-> 0, y |-> 0, width |-> geo.width, height |-> WallThickness],
      [x |-> 0, y |-> 2 * (geo.height - WallThickness),
       width |-> geo.width, height |-> WallThickness],
      [x |-> 0, y |-> 0, width |-> WallThickness, height |-> geo.height],
      [x |-> 2 * (geo.width - WallThickness), y |-> 0,
       width |-> WallThickness, height |-> geo.height]>>
    \o cellWalls(g, geo, 0, geo.cols * geo.rows - 1)
    \o rightEdgeWalls(g, geo, 0)
    \o bottomEdgeWalls(g, geo, 0)

\* lines 316-343, one iteration of while (attempts < 30): col, row and radius
\* are drawn in this order, then the position is tested
holeAttempt(st, geo) ==
    Bind(cellCentre(geo, floorTimes(rng(st.seed), geo.cols),
                    floorTimes(rng2(st.seed), geo.rows)),
         LAMBDA p :
            IF \/ closerThan(p, geo.start, geo.cellSize, 3, 2)
               \/ closerThan(p, geo.goal, geo.cellSize, 3, 2)
               \/ \E i \in 1..Len(st.holes) : closerThan(p, st.holes[i], geo.cellSize, 1, 1)
            THEN [holes |-> st.holes, seed |-> rng3(st.seed), valid |-> FALSE]
            ELSE [holes |-> Append(st.holes,
                        [x |-> p.x, y |-> p.y,
                         radius |-> 10 + floorTimes(rng3(st.seed), 4)]),
                  seed |-> rng3(st.seed), valid |-> TRUE])

\* lines 314-344: at most n iterations, ending with the first valid one
RECURSIVE holeAttempts(_, _, _)
holeAttempts(st, n, geo) ==
    IF n = 1 THEN holeAttempt(st, geo)
    ELSE Bind(holeAttempts(st, n \div 2, geo),
              LAMBDA half :
                IF half.valid THEN half ELSE holeAttempts(half, n - n \div 2, geo))

\* lines 308-348: st = [holes, seed, valid], `left` holes still to place
RECURSIVE generateHoles(_, _, _)
generateHoles(st, left, geo) ==
    IF left = 0 THEN st
    ELSE Bind(holeAttempts([st EXCEPT !.valid = FALSE], HoleAttempts, geo),
              LAMBDA one : generateHoles(one, left - 1, geo))

wallCount(cell) ==
    (IF cell.walls.top THEN 1 ELSE 0) + (IF cell.walls.right THEN 1 ELSE 0)
    + (IF cell.walls.bottom THEN 1 ELSE 0) + (IF cell.walls.left THEN 1 ELSE 0)

\* the cells of the grid, row by row
rowMajor(geo) ==
    [i \in 1..(geo.cols * geo.rows) |->
        [row |-> (i - 1) \div geo.cols, col |-> (i - 1) % geo.cols]]

\* lines 355-364: cells with three walls or more
deadEndCells(g, geo) ==
    SelectSeq(rowMajor(geo), LAMBDA c : wallCount(g[c.row][c.col]) >= 3)

\* lines 368-369 and 728-729: j = Math.floor(rng() * (i + 1)); swap [i], [j]
shuffleStep(st, i) ==
    Bind(floorTimes(rng(st.seed), i + 1), LAMBDA j :
        [items |-> [st.items EXCEPT ![i + 1] = st.items[j + 1], ![j + 1] = st.items[i + 1]],
         seed  |-> rng(st.seed)])

\* the iterations i = hi, hi - 1, ..., lo of the shuffle loop, in two halves
RECURSIVE shuffleRange(_, _, _)
shuffleRange(st, hi, lo) ==
    IF hi < lo THEN st
    ELSE IF hi = lo THEN shuffleStep(st, hi)
    ELSE Bind(shuffleRange(st, hi, (hi + lo) \div 2 + 1),
              LAMBDA upper : shuffleRange(upper, (hi + lo) \div 2, lo))

\* lines 367-370 and 727-730: for (i = length - 1; i > 0; i--)
shuffle(items, s) == shuffleRange([items |-> items, seed |-> s], Len(items) - 1, 1)

\* lines 375-384: the coin pushed for a dead end, if it is far enough
deadEndCoin(coins, p, geo) ==
    IF fartherThan(p, geo.start, geo.cellSize) /\ fartherThan(p, geo.goal, geo.cellSize)
    THEN Append(coins, [x |-> round(p.x), y |-> round(p.y)])
    ELSE coins

\* lines 373-385: dead ends i .. n
RECURSIVE deadEndCoins(_, _, _, _, _)
deadEndCoins(coins, deadEnds, i, n, geo) ==
    IF i > n THEN coins
    ELSE Bind(deadEndCoin(coins, cellCentre(geo, deadEnds[i].col, deadEnds[i].row), geo),
              LAMBDA more : deadEndCoins(more, deadEnds, i + 1, n, geo))

\* a top-up iteration that does not compare the cell with the coins placed
topUpCoinAnywhere(st, geo) ==
    Bind(cellCentre(geo, floorTimes(rng(st.seed), geo.cols),
                    floorTimes(rng2(st.seed), geo.rows)),
         LAMBDA p :
            IF \/ closerThan(p, geo.start, geo.cellSize, 1, 1)
               \/ closerThan(p, geo.goal, geo.cellSize, 1, 1)
            THEN [coins |-> st.coins, seed |-> rng2(st.seed)]
            ELSE [coins |-> Append(st.coins, [x |-> round(p.x), y |-> round(p.y)]),
                  seed |-> rng2(st.seed)])

\* lines 389-411, one iteration of while (coins.length < numCoins)
topUpCoin(st, geo) ==
    Bind(cellCentre(geo, floorTimes(rng(st.seed), geo.cols),
                    floorTimes(rng2(st.seed), geo.rows)),
         LAMBDA p :
            IF \/ closerThan(p, geo.start, geo.cellSize, 1, 1)
               \/ closerThan(p, geo.goal, geo.cellSize, 1, 1)
               \/ \E i \in 1..Len(st.coins) : closerThan(p, st.coins[i], geo.cellSize, 4, 5)
            THEN [coins |-> st.coins, seed |-> rng2(st.seed)]
            ELSE [coins |-> Append(st.coins, [x |-> round(p.x), y |-> round(p.y)]),
                  seed |-> rng2(st.seed)])

\* lines 388-412: the loop, given fuel for at most `fuel` iterations
RECURSIVE topUpCoins(_, _, _, _)
topUpCoins(st, numCoins, geo, fuel) ==
    IF Len(st.coins) >= numCoins \/ fuel = 0 THEN st
    ELSE IF fuel = 1 THEN topUpCoin(st, geo)
    ELSE Bind(topUpCoins(st, numCoins, geo, fuel \div 2),
              LAMBDA half :
                IF Len(half.coins) >= numCoins THEN half
                ELSE topUpCoins(half, numCoins, geo, fuel - fuel \div 2))

\* line 352: Math.min(3 + Math.floor(levelNum / 12), 10)
numCoinsOf(levelNum) == Min(3 + levelNum \div 12, 10)

\* lines 350-415; diverged: the loop was still running when the fuel ran out
generateCoins(levelNum, g, s, geo) ==
    Bind(deadEndCells(g, geo), LAMBDA deadEnds :
    Bind(shuffle(deadEnds, s), LAMBDA shuffled :
    Bind(deadEndCoins(<<>>, shuffled.items, 1,
                      Min(numCoinsOf(levelNum), Len(deadEnds)), geo), LAMBDA first :
    Bind(topUpCoins([coins |-> first, seed |-> shuffled.seed],
                    numCoinsOf(levelNum), geo, TopUpFuel), LAMBDA filled :
        [coins |-> filled.coins, seed |-> filled.seed,
         diverged |-> Len(filled.coins) < numCoinsOf(levelNum)]))))

\* lines 429-455: a dead end away from start, goal, coins and holes
lifeSpot(cell, p, geo, coins, holes) ==
    /\ wallCount(cell) >= 3
    /\ ~closerThan(p, geo.start, geo.cellSize, 2, 1)
    /\ ~closerThan(p, geo.goal, geo.cellSize, 2, 1)
    /\ \A i \in 1..Len(coins) : ~closerThan(p, coins[i], geo.cellSize, 1, 2)
    /\ \A i \in 1..Len(holes) : ~closerThan(p, holes[i], geo.cellSize, 1, 2)

\* lines 461-474: the life placed on one of the dead ends, if there is one
placeLife(deadEnds, s, geo) ==
    IF Len(deadEnds) = 0 THEN [lives |-> <<>>, seed |-> rng(s)]
    ELSE Bind(deadEnds[floorTimes(rng2(s), Len(deadEnds)) + 1], LAMBDA spot :
            [lives |-> <<[x |-> round(cellCentre(geo, spot.col, spot.row).x),
                          y |-> round(cellCentre(geo, spot.col, spot.row).y)]>>,
             seed  |-> rng2(s)])

\* lines 417-477; rng() > Math.min(0.3, 0.05 + levelNum * 0.003)
generateExtraLives(levelNum, g, s, geo, coins, holes) ==
    IF rng(s) * 1000 > LcgModulus * Min(300, 50 + levelNum * 3)
    THEN [lives |-> <<>>, seed |-> rng(s)]
    ELSE placeLife(SelectSeq(rowMajor(geo),
                        LAMBDA c : lifeSpot(g[c.row][c.col], cellCentre(geo, c.col, c.row),
                                            geo, coins, holes)),
                   s, geo)

\* lines 538-544
availableTypes(levelNum) ==
    (IF levelNum >= 6 THEN <<"speed_boost", "slow_motion">> ELSE <<>>)
    \o (IF levelNum >= 15 THEN <<"shield">> ELSE <<>>)
    \o (IF levelNum >= 25 THEN <<"magnet", "shrink">> ELSE <<>>)
    \o (IF levelNum >= 35 THEN <<"ghost">> ELSE <<>>)
    \o (IF levelNum >= 45 THEN <<"time_freeze">> ELSE <<>>)
    \o (IF levelNum >= 55 THEN <<"double_coins">> ELSE <<>>)

\* lines 552-594, one iteration of while (!valid && attempts < 20)
powerupAttempt(st, geo, holes, types) ==
    Bind(cellCentre(geo, floorTimes(rng(st.seed), geo.cols),
                    floorTimes(rng2(st.seed), geo.rows)),
         LAMBDA p :
            IF \/ closerThan(p, geo.start, geo.cellSize, 2, 1)
               \/ closerThan(p, geo.goal, geo.cellSize, 1, 1)
               \/ \E i \in 1..Len(holes) : closerThan(p, holes[i], geo.cellSize, 1, 1)
               \/ \E i \in 1..Len(st.powerups) :
                        closerThan(p, st.powerups[i], geo.cellSize, 3, 2)
            THEN [powerups |-> st.powerups, seed |-> rng2(st.seed), valid |-> FALSE]
            ELSE [powerups |-> Append(st.powerups,
                        [x |-> round(p.x), y |-> round(p.y),
                         type |-> types[floorTimes(rng3(st.seed), Len(types)) + 1],
                         radius |-> 14]),
                  seed |-> rng3(st.seed), valid |-> TRUE])

\* lines 551-595: at most n iterations, ending with the first valid one
RECURSIVE powerupAttempts(_, _, _, _, _)
powerupAttempts(st, n, geo, holes, types) ==
    IF n = 1 THEN powerupAttempt(st, geo, holes, types)
    ELSE Bind(powerupAttempts(st, n \div 2, geo, holes, types),
              LAMBDA half :
                IF half.valid THEN half
                ELSE powerupAttempts(half, n - n \div 2, geo, holes, types))

\* lines 549-596: st = [powerups, seed, valid], `left` powerups still to place
RECURSIVE powerupsLoop(_, _, _, _, _)
powerupsLoop(st, left, geo, holes, types) ==
    IF left = 0 THEN st
    ELSE Bind(powerupAttempts([st EXCEPT !.valid = FALSE], PowerupAttempts,
                              geo, holes, types),
              LAMBDA one : powerupsLoop(one, left - 1, geo, holes, types))

\* lines 531-599
generatePowerups(levelNum, s, geo, holes) ==
    powerupsLoop([powerups |-> <<>>, seed |-> s, valid |-> FALSE],
                 IF levelNum < 6 THEN 0 ELSE Min(3, (levelNum - 5) \div 15 + 1),
                 geo, holes, availableTypes(levelNum))

Directions == <<"up", "down", "left", "right">>

\* lines 614-657, one iteration of while (!valid && attempts < 20)
bouncePadAttempt(st, geo, holes) ==
    Bind(cellCentre(geo, floorTimes(rng(st.seed), geo.cols),
                    floorTimes(rng2(st.seed), geo.rows)),
         LAMBDA p :
            IF \/ closerThan(p, geo.start, geo.cellSize, 3, 2)
               \/ closerThan(p, geo.goal, geo.cellSize, 3, 2)
               \/ \E i \in 1..Len(holes) : closerThan(p, holes[i], geo.cellSize, 4, 5)
               \/ \E i \in 1..Len(st.bouncePads) :
                        closerThan(p, st.bouncePads[i], geo.cellSize, 2, 1)
            THEN [bouncePads |-> st.bouncePads, seed |-> rng2(st.seed), valid |-> FALSE]
            ELSE [bouncePads |-> Append(st.bouncePads,
                        [x |-> round(p.x), y |-> round(p.y), width |-> 25, height |-> 10,
                         direction |-> Directions[floorTimes(rng3(st.seed), 4) + 1],
                         force |-> 12 + floorTimes(rng4(st.seed), 6)]),
                  seed |-> rng4(st.seed), valid |-> TRUE])

\* lines 613-658: at most n iterations, ending with the first valid one
RECURSIVE bouncePadAttempts(_, _, _, _)
bouncePadAttempts(st, n, geo, holes) ==
    IF n = 1 THEN bouncePadAttempt(st, geo, holes)
    ELSE Bind(bouncePadAttempts(st, n \div 2, geo, holes),
              LAMBDA half :
                IF half.valid THEN half
                ELSE bouncePadAttempts(half, n - n \div 2, geo, holes))

\* lines 611-659: st = [bouncePads, seed, valid]
RECURSIVE bouncePadsLoop(_, _, _, _)
bouncePadsLoop(st, left, geo, holes) ==
    IF left = 0 THEN st
    ELSE Bind(bouncePadAttempts([st EXCEPT !.valid = FALSE], BouncePadAttempts, geo, holes),
              LAMBDA one : bouncePadsLoop(one, left - 1, geo, holes))

\* lines 601-662
generateBouncePads(levelNum, s, geo, holes) ==
    bouncePadsLoop([bouncePads |-> <<>>, seed |-> s, valid |-> FALSE],
                   IF levelNum < 11 THEN 0 ELSE Min(4, (levelNum - 10) \div 12 + 1),
                   geo, holes)

\* lines 675-703, one iteration of while (!valid && attempts < 15);
\* multiplier in tenths
speedZoneAttempt(st, geo) ==
    Bind([x |-> geo.offsetX + 2 * floorTimes(rng(st.seed), geo.cols - 1) * geo.cellSize,
          y |-> geo.offsetY + 2 * floorTimes(rng2(st.seed), geo.rows - 1) * geo.cellSize],
         LAMBDA p :
            IF \E i \in 1..Len(st.speedZones) :
                    closerThan(p, st.speedZones[i], geo.cellSize, 2, 1)
            THEN [speedZones |-> st.speedZones, seed |-> rng2(st.seed), valid |-> FALSE]
            ELSE [speedZones |-> Append(st.speedZones,
                        [x |-> round(p.x), y |-> round(p.y),
                         width |-> geo.cellSize, height |-> geo.cellSize,
                         type |-> IF rng3(st.seed) * 2 > LcgModulus THEN "slow" ELSE "fast",
                         multiplier |-> IF rng3(st.seed) * 2 > LcgModulus THEN 4 ELSE 20]),
                  seed |-> rng3(st.seed), valid |-> TRUE])

\* lines 674-704: at most n iterations, ending with the first valid one
RECURSIVE speedZoneAttempts(_, _, _)
speedZoneAttempts(st, n, geo) ==
    IF n = 1 THEN speedZoneAttempt(st, geo)
    ELSE Bind(speedZoneAttempts(st, n \div 2, geo),
              LAMBDA half :
                IF half.valid THEN half ELSE speedZoneAttempts(half, n - n \div 2, geo))

\* lines 672-705: st = [speedZones, seed, valid]
RECURSIVE speedZonesLoop(_, _, _)
speedZonesLoop(st, left, geo) ==
    IF left = 0 THEN st
    ELSE Bind(speedZoneAttempts([st EXCEPT !.valid = FALSE], SpeedZoneAttempts, geo),
              LAMBDA one : speedZonesLoop(one, left - 1, geo))

\* lines 664-708
generateSpeedZones(levelNum, s, geo) ==
    speedZonesLoop([speedZones |-> <<>>, seed |-> s, valid |-> FALSE],
                   IF levelNum < 16 THEN 0 ELSE Min(3, (levelNum - 15) \div 15 + 1), geo)

\* lines 733-747: range, speed and phase drawn in this order;
\* phase = rng() * 2 * PI is kept as the seed that rng() returned
movingWall(st, wall) ==
    [movingWalls |-> Append(st.movingWalls,
            [originalX |-> wall.x, originalY |-> wall.y,
             width |-> wall.width, height |-> wall.height,
             direction |-> IF wall.width > wall.height THEN "vertical" ELSE "horizontal",
             range |-> 30 + floorTimes(rng(st.seed), 30),
             speed |-> 20 + floorTimes(rng2(st.seed), 30),
             phase |-> rng3(st.seed)]),
     seed |-> rng3(st.seed)]

\* lines 732-748: candidates i .. n
RECURSIVE movingWallsLoop(_, _, _, _)
movingWallsLoop(st, candidates, i, n) ==
    IF i > n THEN st
    ELSE Bind(movingWall(st, candidates[i]),
              LAMBDA next : movingWallsLoop(next, candidates, i + 1, n))

\* lines 720-730: the shuffled candidates, when there are any
pickMovingWalls(levelNum, candidates, s) ==
    IF Len(candidates) = 0 THEN [movingWalls |-> <<>>, seed |-> s]
    ELSE Bind(shuffle(candidates, s), LAMBDA shuffled :
            movingWallsLoop([movingWalls |-> <<>>, seed |-> shuffled.seed],
                            shuffled.items, 1,
                            Min(Min(3, (levelNum - 20) \div 15 + 1), Len(candidates))))

\* lines 710-751
generateMovingWalls(levelNum, walls, s) ==
    IF levelNum < 21 THEN [movingWalls |-> <<>>, seed |-> s]
    ELSE Bind(SelectSeq(walls, LAMBDA w : w.width > 30 \/ w.height > 30),
              LAMBDA candidates : pickMovingWalls(levelNum, candidates, s))

\* lines 90-96: baseTime and its 65 % and 40 %
starTimes(levelNum) ==
    <<12000 + levelNum * 600 + getDifficulty(levelNum).complexity * 1500,
      ((12000 + levelNum * 600 + getDifficulty(levelNum).complexity * 1500) * 65) \div 100,
      ((12000 + levelNum * 600 + getDifficulty(levelNum).complexity * 1500) * 40) \div 100>>

\* lines 30-117, all of generateLevel after the stream has been seeded: the
\* MazeDefinition returned (name, a table lookup on levelNum, is left out),
\* the seed the instance is left with, and whether the coin top-up loop was
\* still running when its fuel ran out
generateFrom(num, s) ==
    Bind(levelGeometry(num), LAMBDA geo :
    Bind(generateMazeGrid(geo.cols, geo.rows, s), LAMBDA maze :
    Bind(mazeToWalls(maze.grid, geo), LAMBDA walls :
    Bind(generateHoles([holes |-> <<>>, seed |-> maze.seed, valid |-> FALSE],
                       getDifficulty(num).holes, geo), LAMBDA holes :
    Bind(generateCoins(num, maze.grid, holes.seed, geo), LAMBDA coins :
    Bind(generateExtraLives(num, maze.grid, coins.seed, geo,
                            coins.coins, holes.holes), LAMBDA lives :
    Bind(generatePowerups(num, lives.seed, geo, holes.holes), LAMBDA pus :
    Bind(generateBouncePads(num, pus.seed, geo, holes.holes), LAMBDA pads :
    Bind(generateSpeedZones(num, pads.seed, geo), LAMBDA zones :
    Bind(generateMovingWalls(num, walls, zones.seed), LAMBDA moving :
        [level |->
            [id |-> num, difficulty |-> getDifficulty(num).name,
             width |-> geo.width, height |-> geo.height, ballRadius |-> geo.ballRadius,
             start |-> geo.start, goal |-> geo.goal,
             walls |-> walls, holes |-> holes.holes, coins |-> coins.coins,
             extraLives |-> lives.lives, powerups |-> pus.powerups,
             bouncePads |-> pads.bouncePads, speedZones |-> zones.speedZones,
             movingWalls |-> moving.movingWalls, starTimes |-> starTimes(num)],
         seed |-> moving.seed,
         diverged |-> coins.diverged]))))))))))

\* lines 28-118: const rng = this.random(levelNum * 7919), then the rest
generateLevel(num, oldSeed) == generateFrom(num, random(num * LevelSeedPrime, oldSeed))

(***************************************************************************)
(* The engine and what surrounds it, as constructed.                       *)
(*                                                                         *)
(* The maze is reduced to one axis: the ball sits on one of the cells      *)
(* 0..width of a corridor and moves by its velocity, one cell per frame at  *)
(* most; a pickup, a hole or the goal is touched when the ball is on its    *)
(* cell.  timeScale is kept in tenths (0.4 is 4, 1.0 is 10).  Wall-clock    *)
(* time is counted in units of the 100 ms interval; a setTimeout callback   *)
(* fires at any moment after it was scheduled, a requested animation frame  *)
(* likewise.                                                                *)
(***************************************************************************)
\* this.timeScale = 0.4 and this.timeScale = 1.0, in tenths
SlowScale   == 4
NormalScale == 10
\* DEFAULT_SHOP.lives and DEFAULT_SHOP.maxLives
DefaultLives == 4
MaxLives     == 10
\* this.ball.radius of the constructor, also the fallback of ballRadius
DefaultRadius == 15

\* this.currentLevel = null
NullLevel == [name |-> "null"]

\* the keys of this.activePowerups that the engine reads
PowerupTypes == {"slow_motion", "speed_boost", "shrink"}
\* the callbacks handed to setTimeout: one per powerup type, and time warp
TimeoutKinds == PowerupTypes \cup {"time_warp"}

\* this.activePowerups[type] === undefined
Absent == [present |-> FALSE, active |-> FALSE, timer |-> FALSE]

\* the GameEngine constructor
NewEngine ==
    [isRunning |-> FALSE, isPaused |-> FALSE,
     currentLevel |-> NullLevel, levelIndex |-> 0,
     ball |-> [x |-> 0, vx |-> 0, radius |-> DefaultRadius],
     startTime |-> 0, elapsedTime |-> 0,
     timerInterval |-> FALSE,
     timeScale |-> NormalScale, timeWarpActive |-> FALSE, timeWarpUsed |-> FALSE,
     animationFrameId |-> "null",
     levelCoins |-> {}, coinsCollectedThisLevel |-> 0,
     levelExtraLives |-> {},
     levelPowerups |-> <<>>,
     activePowerups |-> [type \in PowerupTypes |-> Absent],
     levelMovingWalls |-> <<>>]

\* nothing requested, nothing scheduled
NewBrowser ==
    [now |-> 0, frames |-> 0, intervals |-> 0,
     timeouts |-> [kind \in TimeoutKinds |-> 0]]

\* the shop data of a new player; time_control bought or not
NewStorage(slowMotion) == [lives |-> DefaultLives, slowMotion |-> slowMotion]

EngineIdle ==
    /\ engine = NewEngine
    /\ browser = NewBrowser
    /\ storage = NewStorage(FALSE)
    /\ events = <<>>
    /\ runningTime = 0

(***************************************************************************)
(* SpecMaze: generateMazeGrid step by step under any random stream          *)
(***************************************************************************)
NoLevel == [id |-> 0]

GenIdle == seed = InitialSeed /\ requested = 0 /\ level = NoLevel /\ generated = 0

InitMaze ==
    /\ GenIdle
    /\ cols \in 1..MaxCells
    /\ rows \in 1..MaxCells
    /\ cols * rows <= MaxCells
    /\ grid = carveStart(cols, rows).grid
    /\ stack = carveStart(cols, rows).stack
    /\ pc = "carve"
    /\ passagesLeft = 0
    /\ EngineIdle

\* a loop iteration with unvisited neighbours: any value of rng()
CarvePush ==
    /\ pc = "carve" /\ Len(stack) > 0
    /\ LET current   == stack[Len(stack)]
           neighbors == getUnvisitedNeighbors(grid, current.row, current.col, rows, cols)
       IN  /\ Len(neighbors) > 0
           /\ \E k \in 0..(Len(neighbors) - 1) :
                LET step == carvePush(grid, stack, rows, cols, k)
                IN  grid' = step.grid /\ stack' = step.stack
    /\ UNCHANGED <<cols, rows, pc, passagesLeft>>
    /\ UNCHANGED <<genVars, engineVars>>

\* a loop iteration without unvisited neighbours
CarvePop ==
    /\ pc = "carve" /\ Len(stack) > 0
    /\ LET current == stack[Len(stack)]
       IN  Len(getUnvisitedNeighbors(grid, current.row, current.col, rows, cols)) = 0
    /\ stack' = carvePop(stack)
    /\ UNCHANGED <<cols, rows, grid, pc, passagesLeft>>
    /\ UNCHANGED <<genVars, engineVars>>

\* the while loop ends; line 160
CarveDone ==
    /\ pc = "carve" /\ Len(stack) = 0
    /\ pc' = "extra"
    /\ passagesLeft' = extraPassages(cols, rows)
    /\ UNCHANGED <<cols, rows, grid, stack>>
    /\ UNCHANGED <<genVars, engineVars>>

\* one iteration of the extra-passage loop: any three values of rng()
ExtraPassage ==
    /\ pc = "extra" /\ passagesLeft > 0
    /\ \E row \in 0..(rows - 1), col \in 0..(cols - 1), dir \in 0..3 :
            grid' = addPassage(grid, row, col, dir, rows, cols)
    /\ passagesLeft' = passagesLeft - 1
    /\ UNCHANGED <<cols, rows, stack, pc>>
    /\ UNCHANGED <<genVars, engineVars>>

\* line 181
ReturnGrid ==
    /\ pc = "extra" /\ passagesLeft = 0
    /\ pc' = "done"
    /\ UNCHANGED <<cols, rows, grid, stack, passagesLeft>>
    /\ UNCHANGED <<genVars, engineVars>>

NextMaze == CarvePush \/ CarvePop \/ CarveDone \/ ExtraPassage \/ ReturnGrid

SpecMaze == InitMaze /\ [][NextMaze]_vars

(***************************************************************************)
(* Breadth-first search over open cell adjacencies                         *)
(***************************************************************************)
Cells(ncols, nrows) == {[row |-> r, col |-> c] : r \in 0..(nrows - 1), c \in 0..(ncols - 1)}

\* a and b are neighbours and neither side of the wall between them is set
OpenBetween(g, a, b) ==
    \/ b.row = a.row - 1 /\ b.col = a.col
        /\ ~g[a.row][a.col].walls.top /\ ~g[b.row][b.col].walls.bottom
    \/ b.row = a.row + 1 /\ b.col = a.col
        /\ ~g[a.row][a.col].walls.bottom /\ ~g[b.row][b.col].walls.top
    \/ b.row = a.row /\ b.col = a.col + 1
        /\ ~g[a.row][a.col].walls.right /\ ~g[b.row][b.col].walls.left
    \/ b.row = a.row /\ b.col = a.col - 1
        /\ ~g[a.row][a.col].walls.left /\ ~g[b.row][b.col].walls.right

RECURSIVE Bfs(_, _, _, _)
Bfs(g, reached, ncols, nrows) ==
    LET more == {b \in Cells(ncols, nrows) \ reached :
                    \E a \in reached : OpenBetween(g, a, b)}
    IN  IF more = {} THEN reached ELSE Bfs(g, reached \cup more, ncols, nrows)

StartCell(ncols, nrows) == [row |-> nrows - 1, col |-> 0]
GoalCell(ncols, nrows)  == [row |-> 0, col |-> ncols - 1]

GoalReachable(g, ncols, nrows) ==
    GoalCell(ncols, nrows) \in Bfs(g, {StartCell(ncols, nrows)}, ncols, nrows)

\* the number of opened passages of the grid
Passages(g, ncols, nrows) ==
    {<<a, b>> \in Cells(ncols, nrows) \X Cells(ncols, nrows) :
        /\ (b.row = a.row + 1 /\ b.col = a.col) \/ (b.row = a.row /\ b.col = a.col + 1)
        /\ OpenBetween(g, a, b)}

\* C2: in every grid of generateMazeGrid, once the carving loop has ended
\* (before, between and after the extra passages), a breadth-first search
\* from the start cell (col 0, row rows-1) reaches the goal cell
\* (col cols-1, row 0).
C2_GoalReachable ==
    pc \in {"extra", "done"} => GoalReachable(grid, cols, rows)

\* a returned grid in which an extra passage closed a loop, goal reached
C2_Witness ==
    /\ pc = "done"
    /\ extraPassages(cols, rows) > 0
    /\ Cardinality(Passages(grid, cols, rows)) = cols * rows
    /\ GoalReachable(grid, cols, rows)

(***************************************************************************)
(* SpecLevels: one LevelGenerator instance asked for levels in any order    *)
(***************************************************************************)
\* generateAllLevels: for (let i = 1; i <= 100; i++)
LastLevel == 100

InitLevels ==
    /\ GenIdle
    /\ cols = 0 /\ rows = 0 /\ grid = <<>> /\ stack = <<>>
    /\ pc = "idle" /\ passagesLeft = 0
    /\ EngineIdle

\* generateLevel(num) is called on the instance, whatever it generated
\* before; line 29 seeds the stream
CallGenerateLevel(num) ==
    /\ pc = "idle"
    /\ generated < MaxGenerations
    /\ seed' = random(num * LevelSeedPrime, seed)
    /\ requested' = num
    /\ level' = NoLevel
    /\ pc' = "generating"
    /\ UNCHANGED <<generated, cols, rows, grid, stack, passagesLeft, engineVars>>

\* lines 30-117; the call returns once the coin top-up loop has ended
ReturnLevel ==
    /\ pc = "generating"
    /\ \E result \in {generateFrom(requested, seed)} :
        /\ ~result.diverged
        /\ level' = result.level
        /\ seed' = result.seed
    /\ requested' = 0
    /\ generated' = generated + 1
    /\ pc' = "idle"
    /\ UNCHANGED <<cols, rows, grid, stack, passagesLeft, engineVars>>

NextLevels == (\E num \in 1..LastLevel : CallGenerateLevel(num)) \/ ReturnLevel

SpecLevels == InitLevels /\ [][NextLevels]_vars

\* what a LevelGenerator constructed for this one call returns
freshLevel(levelNum) == generateLevel(levelNum, InitialSeed).level

\* C1: whatever the instance generated before, the MazeDefinition that
\* generateLevel(n) returns for n in 1..100 is the one a new instance
\* returns for n: walls, holes, coins, extra lives, powerups, bounce pads,
\* speed zones, moving walls, start, goal, star times all equal.
C1_Deterministic ==
    level # NoLevel => level.id \in 1..LastLevel /\ level = freshLevel(level.id)

\* level 100 returned by an instance that had generated another level before
C1_Witness ==
    /\ generated >= 2
    /\ level # NoLevel
    /\ level.id = LastLevel
    /\ Len(level.movingWalls) > 0 /\ Len(level.coins) > 0
    /\ level = freshLevel(LastLevel)

(***************************************************************************)
(* The level pack of the LevelManager.  Two corridors:                     *)
(*   index 0  coin and shrink powerup on cell 1, start on 2, slow-motion    *)
(*            powerup on 3, goal on 4, one moving wall, no hole;            *)
(*   index 1  hole on cell 0, start on 2, extra life on 3, goal on 4;        *)
(*   index 2  slow-motion powerup on cell 1, start on 2, speed-boost        *)
(*            powerup on 3, goal on 4.                                      *)
(***************************************************************************)
PickupLevel ==
    [name |-> "pickups", width |-> 4, start |-> 2, goal |-> 4,
     holes |-> {}, coins |-> {1}, extraLives |-> {},
     powerups |-> <<[x |-> 1, type |-> "shrink"], [x |-> 3, type |-> "slow_motion"]>>,
     movingWalls |-> <<[originalX |-> 0]>>,
     ballRadius |-> 10, starTimes |-> <<2, 1, 0>>]

HoleLevel ==
    [name |-> "hole", width |-> 4, start |-> 2, goal |-> 4,
     holes |-> {0}, coins |-> {}, extraLives |-> {3},
     powerups |-> <<>>,
     movingWalls |-> <<>>,
     ballRadius |-> 10, starTimes |-> <<2, 1, 0>>]

BoostLevel ==
    [name |-> "boost", width |-> 4, start |-> 2, goal |-> 4,
     holes |-> {}, coins |-> {}, extraLives |-> {},
     powerups |-> <<[x |-> 1, type |-> "slow_motion"], [x |-> 3, type |-> "speed_boost"]>>,
     movingWalls |-> <<>>,
     ballRadius |-> 10, starTimes |-> <<2, 1, 0>>]

LevelPack == <<PickupLevel, HoleLevel, BoostLevel>>

\* LevelManager.getLevel
getLevel(index) ==
    IF index < 0 \/ index >= Len(LevelPack) THEN NullLevel ELSE LevelPack[index + 1]

\* input.x of inputManager.getTilt(), and the displacement of a moving wall
\* that updateMovingWalls computes from performance.now()
Tilts       == {-1, 0, 1}
WallOffsets == {0, 1}

(***************************************************************************)
(* Bounds of the engine's specifications                                   *)
(***************************************************************************)
\* callbacks that the browser holds and has not yet run: animation frames
\* requested and timeouts scheduled
MaxCallbacks == 3
\* wall-clock time, in interval periods
MaxTime == 2

(***************************************************************************)
(* The methods.  w is the engine with its surroundings:                    *)
(*   w.engine   the fields of the GameEngine instance                      *)
(*   w.browser  the clock, the pending frames and timeouts                 *)
(*   w.storage  lives and the time_control upgrade                         *)
(*   w.events   the callbacks the running step has invoked, in order, and  *)
(*              the value activateTimeWarp returned                        *)
(* A method is the record after the call.                                  *)
(***************************************************************************)
This == [engine |-> engine, browser |-> browser, storage |-> storage, events |-> <<>>]

emit(w, event) == [w EXCEPT !.events = Append(@, event)]

hasLevel(w) == w.engine.currentLevel.name # "null"

\* requestAnimationFrame(this.gameLoop), its id stored in animationFrameId
requestAnimationFrame(w) ==
    [w EXCEPT !.browser.frames = @ + 1, !.engine.animationFrameId = "pending"]

\* cancelAnimationFrame(this.animationFrameId): nothing if that frame ran
cancelAnimationFrame(w) ==
    IF w.engine.animationFrameId = "pending"
    THEN [w EXCEPT !.browser.frames = @ - 1, !.engine.animationFrameId = "spent"]
    ELSE w

\* one setTimeout callback of this kind more
setTimeout(w, kind) == [w EXCEPT !.browser.timeouts[kind] = @ + 1]

\* clearTimeout of a pending callback of this kind
clearTimeout(w, kind) == [w EXCEPT !.browser.timeouts[kind] = @ - 1]

\* startTimer: setInterval, its handle stored over the one held before
startTimer(w) ==
    [w EXCEPT !.engine.timerInterval = TRUE, !.browser.intervals = @ + 1]

\* stopTimer: clearInterval of the handle held, if any
stopTimer(w) ==
    IF w.engine.timerInterval
    THEN [w EXCEPT !.engine.timerInterval = FALSE, !.browser.intervals = @ - 1]
    ELSE w

\* the interval callback of startTimer
timerCallback(w) ==
    emit([w EXCEPT !.engine.elapsedTime = w.browser.now - w.engine.startTime],
         [name |-> "onTimeUpdate", arg |-> w.browser.now - w.engine.startTime])

resetBall(w) ==
    IF ~hasLevel(w) THEN w
    ELSE [w EXCEPT
            !.engine.ball = [x |-> w.engine.currentLevel.start, vx |-> 0,
                             radius |-> w.engine.currentLevel.ballRadius],
            !.engine.levelCoins = w.engine.currentLevel.coins,
            !.engine.coinsCollectedThisLevel = 0,
            !.engine.levelExtraLives = w.engine.currentLevel.extraLives,
            !.engine.levelPowerups =
                [i \in DOMAIN w.engine.currentLevel.powerups |->
                    [x |-> w.engine.currentLevel.powerups[i].x,
                     type |-> w.engine.currentLevel.powerups[i].type,
                     collected |-> FALSE]],
            !.engine.activePowerups = [type \in PowerupTypes |-> Absent],
            !.engine.levelMovingWalls =
                [i \in DOMAIN w.engine.currentLevel.movingWalls |->
                    [originalX |-> w.engine.currentLevel.movingWalls[i].originalX,
                     currentX |-> w.engine.currentLevel.movingWalls[i].originalX]]]

\* loadLevel: after resetBall it assigns the coins, extra lives, powerups,
\* moving walls and active powerups once more, to the same values
loadLevel(w, levelIndex) ==
    IF getLevel(levelIndex).name = "null"
    THEN [w EXCEPT !.engine.levelIndex = levelIndex, !.engine.currentLevel = NullLevel]
    ELSE resetBall([w EXCEPT !.engine.levelIndex = levelIndex,
                             !.engine.currentLevel = getLevel(levelIndex),
                             !.engine.timeScale = NormalScale,
                             !.engine.timeWarpActive = FALSE,
                             !.engine.timeWarpUsed = FALSE])

start(w) ==
    IF w.engine.isRunning THEN w
    ELSE requestAnimationFrame(startTimer(emit(
            [w EXCEPT !.engine.isRunning = TRUE,
                      !.engine.isPaused = FALSE,
                      !.engine.elapsedTime = 0,
                      !.engine.startTime = w.browser.now],
            [name |-> "onLevelStart"])))

pause(w) ==
    IF ~w.engine.isRunning \/ w.engine.isPaused THEN w
    ELSE cancelAnimationFrame(stopTimer([w EXCEPT !.engine.isPaused = TRUE]))

\* a resume without its guard
resumeUnguarded(w) ==
    requestAnimationFrame(startTimer([w EXCEPT !.engine.isPaused = FALSE]))

resume(w) ==
    IF ~w.engine.isRunning \/ ~w.engine.isPaused THEN w
    ELSE requestAnimationFrame(startTimer([w EXCEPT !.engine.isPaused = FALSE]))

stop(w) ==
    IF w.engine.animationFrameId # "null"
    THEN [cancelAnimationFrame(stopTimer(w)) EXCEPT
            !.engine.isRunning = FALSE,
            !.engine.isPaused = FALSE,
            !.engine.animationFrameId = "null"]
    ELSE [stopTimer(w) EXCEPT !.engine.isRunning = FALSE, !.engine.isPaused = FALSE]

restart(w) == start(resetBall(stop(w)))

\* StorageManager.loseLife: Math.max(0, (shop.lives || 4) - 1)
loseLife(lives) == Max(0, (IF lives = 0 THEN DefaultLives ELSE lives) - 1)

\* StorageManager.addLife(1): Math.min((shop.lives || 0) + 1, maxLives)
addLife(lives) == Min(lives + 1, MaxLives)

\* a calculateStars that tests the two-star threshold first
calculateStarsTwoFirst(targets, time) ==
    IF Len(targets) < 3 THEN 1
    ELSE IF time <= targets[2] THEN 2
    ELSE IF time <= targets[3] THEN 3
    ELSE 1

\* lines 1021-1031.  targets is this.currentLevel?.starTimes, <<>> when it
\* is missing or not an array; the third test and the final return both
\* give 1
calculateStars(targets, time) ==
    IF Len(targets) < 3 THEN 1
    ELSE IF time <= targets[3] THEN 3
    ELSE IF time <= targets[2] THEN 2
    ELSE 1

handleWin(w) ==
    emit(stop(w),
         [name |-> "onWin",
          time |-> w.engine.elapsedTime,
          stars |-> calculateStars(w.engine.currentLevel.starTimes, w.engine.elapsedTime),
          coinsCollected |-> w.engine.coinsCollectedThisLevel])

handleLose(w) ==
    IF loseLife(w.storage.lives) <= 0
    THEN emit(emit([stop(w) EXCEPT !.storage.lives = loseLife(@)],
                   [name |-> "onLifeLost", arg |-> loseLife(w.storage.lives)]),
              [name |-> "onGameOver"])
    ELSE emit(emit([stop(w) EXCEPT !.storage.lives = loseLife(@)],
                   [name |-> "onLifeLost", arg |-> loseLife(w.storage.lives)]),
              [name |-> "onLose", arg |-> loseLife(w.storage.lives)])

\* update, lines 412-429: the tilt accelerates the ball, the speed is clamped
accelerate(w, tilt) ==
    [w EXCEPT !.engine.ball.vx = Max(-1, Min(1, @ + tilt))]

\* update, lines 439-482 with checkWallCollisions: the ball moves, or bounces
\* off the boundary of the maze
move(w) ==
    IF w.engine.ball.x + w.engine.ball.vx < 0
    THEN [emit(w, [name |-> "onWallHit"]) EXCEPT
            !.engine.ball.vx = -@, !.engine.ball.x = 0]
    ELSE IF w.engine.ball.x + w.engine.ball.vx > w.engine.currentLevel.width
    THEN [emit(w, [name |-> "onWallHit"]) EXCEPT
            !.engine.ball.vx = -@, !.engine.ball.x = w.engine.currentLevel.width]
    ELSE [w EXCEPT !.engine.ball.x = @ + w.engine.ball.vx]

checkHoleCollision(w) == w.engine.ball.x \in w.engine.currentLevel.holes

checkGoalCollision(w) == w.engine.ball.x = w.engine.currentLevel.goal

checkCoinCollision(w) ==
    IF w.engine.ball.x \in w.engine.levelCoins
    THEN emit([w EXCEPT !.engine.levelCoins = @ \ {w.engine.ball.x},
                        !.engine.coinsCollectedThisLevel = @ + 1],
              [name |-> "onCoinCollected", arg |-> w.engine.coinsCollectedThisLevel + 1])
    ELSE w

checkExtraLifeCollision(w) ==
    IF w.engine.ball.x \in w.engine.levelExtraLives
    THEN emit([w EXCEPT !.engine.levelExtraLives = @ \ {w.engine.ball.x},
                        !.storage.lives = addLife(@)],
              [name |-> "onLifeCollected", arg |-> addLife(w.storage.lives)])
    ELSE w

activatePowerup(w, type) ==
    [(IF w.engine.activePowerups[type].present /\ w.engine.activePowerups[type].timer
      THEN setTimeout(clearTimeout(w, type), type)
      ELSE setTimeout(w, type))
     EXCEPT !.engine.activePowerups[type] =
                [present |-> TRUE, active |-> TRUE, timer |-> TRUE]]

\* the callback that activatePowerup hands to setTimeout.  own: it is the
\* timer of the current this.activePowerups[type]
powerupTimeout(w, type, own) ==
    IF ~w.engine.activePowerups[type].present THEN w
    ELSE [w EXCEPT !.engine.activePowerups[type].active = FALSE,
                   !.engine.activePowerups[type].timer = IF own THEN FALSE ELSE @]

\* the loop of checkPowerupCollision, from powerup i down to the first
RECURSIVE collectPowerups(_, _)
collectPowerups(w, i) ==
    IF i = 0 THEN w
    ELSE IF ~w.engine.levelPowerups[i].collected
            /\ w.engine.levelPowerups[i].x = w.engine.ball.x
    THEN collectPowerups(
            activatePowerup([w EXCEPT !.engine.levelPowerups[i].collected = TRUE],
                            w.engine.levelPowerups[i].type),
            i - 1)
    ELSE collectPowerups(w, i - 1)

checkPowerupCollision(w) == collectPowerups(w, Len(w.engine.levelPowerups))

updateMovingWalls(w, offset) ==
    [w EXCEPT !.engine.levelMovingWalls =
        [i \in DOMAIN w.engine.levelMovingWalls |->
            [originalX |-> w.engine.levelMovingWalls[i].originalX,
             currentX |-> w.engine.levelMovingWalls[i].originalX + offset]]]

updateActivePowerups(w) ==
    [w EXCEPT
        !.engine.timeScale =
            IF w.engine.activePowerups["slow_motion"].active THEN SlowScale
            ELSE IF w.engine.activePowerups["speed_boost"].active THEN @
            ELSE NormalScale,
        !.engine.ball.radius =
            IF w.engine.activePowerups["shrink"].active
            THEN (w.engine.currentLevel.ballRadius * 6) \div 10
            ELSE w.engine.currentLevel.ballRadius]

\* update, from the hole check on
afterMove(w, offset) ==
    IF checkHoleCollision(w) THEN handleLose(w)
    ELSE IF checkGoalCollision(w) THEN handleWin(w)
    ELSE updateActivePowerups(updateMovingWalls(
            checkPowerupCollision(checkExtraLifeCollision(checkCoinCollision(w))),
            offset))

update(w, tilt, offset) == afterMove(move(accelerate(w, tilt)), offset)

\* a gameLoop that runs whatever the state of the session
frameNeverSkipped(w) == FALSE

\* gameLoop, line 388: if (!this.isRunning || this.isPaused) return
frameSkipped(w) == ~w.engine.isRunning \/ w.engine.isPaused

gameLoop(w, tilt, offset) ==
    IF frameSkipped(w) THEN w
    ELSE requestAnimationFrame(update(w, tilt, offset))

\* an activateTimeWarp that forgets the earlier use
activateTimeWarpAgain(w) ==
    IF ~w.storage.slowMotion \/ w.engine.timeWarpActive
    THEN emit(w, [name |-> "activateTimeWarp", result |-> FALSE])
    ELSE emit(setTimeout([w EXCEPT !.engine.timeWarpActive = TRUE,
                                   !.engine.timeWarpUsed = TRUE,
                                   !.engine.timeScale = SlowScale],
                         "time_warp"),
              [name |-> "activateTimeWarp", result |-> TRUE])

activateTimeWarp(w) ==
    IF ~w.storage.slowMotion \/ w.engine.timeWarpUsed \/ w.engine.timeWarpActive
    THEN emit(w, [name |-> "activateTimeWarp", result |-> FALSE])
    ELSE emit(setTimeout([w EXCEPT !.engine.timeWarpActive = TRUE,
                                   !.engine.timeWarpUsed = TRUE,
                                   !.engine.timeScale = SlowScale],
                         "time_warp"),
              [name |-> "activateTimeWarp", result |-> TRUE])

deactivateTimeWarp(w) ==
    [w EXCEPT !.engine.timeWarpActive = FALSE, !.engine.timeScale = NormalScale]

(***************************************************************************)
(* The steps: a call of a public method by the UI, or a callback run by    *)
(* the browser.  The UI loads a level before it starts the engine          *)
(* (UIManager.continueToGame), and its game screen, whose buttons call the *)
(* other methods, belongs to a loaded level.                               *)
(***************************************************************************)
pendingTimeouts(w) ==
    w.browser.timeouts["slow_motion"] + w.browser.timeouts["speed_boost"]
        + w.browser.timeouts["shrink"] + w.browser.timeouts["time_warp"]

\* the step ends in w
Becomes(w) ==
    /\ w.browser.frames + pendingTimeouts(w) <= MaxCallbacks
    /\ w.browser.intervals <= MaxCallbacks
    /\ engine' = w.engine
    /\ browser' = w.browser
    /\ storage' = w.storage
    /\ events' = w.events
    /\ UNCHANGED <<genVars, mazeVars>>

LoadLevel(levelIndex) ==
    /\ Becomes(loadLevel(This, levelIndex))
    /\ UNCHANGED runningTime

\* runningTime: the time spent running since the last effective start()
Start ==
    /\ hasLevel(This)
    /\ Becomes(start(This))
    /\ runningTime' = IF engine.isRunning THEN runningTime ELSE 0

Pause ==
    /\ hasLevel(This)
    /\ Becomes(pause(This))
    /\ UNCHANGED runningTime

Resume ==
    /\ hasLevel(This)
    /\ Becomes(resume(This))
    /\ UNCHANGED runningTime

Stop ==
    /\ hasLevel(This)
    /\ Becomes(stop(This))
    /\ UNCHANGED runningTime

Restart ==
    /\ hasLevel(This)
    /\ Becomes(restart(This))
    /\ runningTime' = 0

ActivateTimeWarp ==
    /\ hasLevel(This)
    /\ Becomes(activateTimeWarp(This))
    /\ UNCHANGED runningTime

\* the browser runs a requested frame: the one animationFrameId names
\* (tracked) or an earlier one whose id the engine has overwritten
AnimationFrame(tracked, tilt, offset) ==
    /\ IF tracked
       THEN engine.animationFrameId = "pending"
       ELSE browser.frames > (IF engine.animationFrameId = "pending" THEN 1 ELSE 0)
    /\ Becomes(gameLoop([This EXCEPT
                            !.browser.frames = @ - 1,
                            !.engine.animationFrameId = IF tracked THEN "spent" ELSE @],
                        tilt, offset))
    /\ UNCHANGED runningTime

\* the browser runs the interval callback
TimerTick ==
    /\ browser.intervals > 0
    /\ Becomes(timerCallback(This))
    /\ UNCHANGED runningTime

\* the browser runs the expiry callback of a powerup: that of the current
\* entry (own) or one whose entry resetBall has dropped
PowerupTimeout(type, own) ==
    /\ IF own
       THEN engine.activePowerups[type].present /\ engine.activePowerups[type].timer
       ELSE browser.timeouts[type] >
                (IF engine.activePowerups[type].present /\ engine.activePowerups[type].timer
                 THEN 1 ELSE 0)
    /\ Becomes(powerupTimeout(clearTimeout(This, type), type, own))
    /\ UNCHANGED runningTime

\* the browser runs the callback that activateTimeWarp scheduled
TimeWarpTimeout ==
    /\ browser.timeouts["time_warp"] > 0
    /\ Becomes(deactivateTimeWarp(clearTimeout(This, "time_warp")))
    /\ UNCHANGED runningTime

\* an interval period passes
Advance ==
    /\ browser.now < MaxTime
    /\ browser' = [browser EXCEPT !.now = @ + 1]
    /\ runningTime' = IF engine.isRunning /\ ~engine.isPaused
                      THEN runningTime + 1 ELSE runningTime
    /\ events' = <<>>
    /\ UNCHANGED <<engine, storage, genVars, mazeVars>>

Frame == \E tracked \in BOOLEAN, tilt \in Tilts, offset \in WallOffsets :
            AnimationFrame(tracked, tilt, offset)

(***************************************************************************)
(* Spec: a session on the level with pickups; the player may own            *)
(* time_control; the clock is not observed.                                *)
(***************************************************************************)
GeneratorIdle ==
    /\ GenIdle
    /\ cols = 0 /\ rows = 0 /\ grid = <<>> /\ stack = <<>>
    /\ pc = "idle" /\ passagesLeft = 0

Init ==
    /\ GeneratorIdle
    /\ engine = NewEngine
    /\ browser = NewBrowser
    /\ storage \in {NewStorage(slowMotion) : slowMotion \in BOOLEAN}
    /\ events = <<>>
    /\ runningTime = 0

Next ==
    \/ LoadLevel(0)
    \/ Start
    \/ Pause
    \/ Resume
    \/ Stop
    \/ Restart
    \/ ActivateTimeWarp
    \/ Frame
    \/ TimerTick
    \/ \E type \in PowerupTypes, own \in BOOLEAN : PowerupTimeout(type, own)
    \/ TimeWarpTimeout

Spec == Init /\ [][Next]_vars

(***************************************************************************)
(* SpecSession: a session on the level with the hole, under the clock;      *)
(* no time_control.                                                        *)
(***************************************************************************)
InitSession ==
    /\ GeneratorIdle
    /\ EngineIdle

NextSession ==
    \/ LoadLevel(1)
    \/ Start
    \/ Pause
    \/ Resume
    \/ Stop
    \/ Restart
    \/ Frame
    \/ TimerTick
    \/ Advance

SpecSession == InitSession /\ [][NextSession]_vars

(***************************************************************************)
(* The session's contracts                                                 *)
(***************************************************************************)
\* what a step may not touch while the session is paused
PhysicsState(e) ==
    <<e.ball, e.levelCoins, e.levelExtraLives, e.levelPowerups,
      e.activePowerups, e.timeScale, e.timeWarpActive>>

\* a callback run by the browser: a frame, the interval, a timeout
BrowserCallback ==
    \/ Frame
    \/ TimerTick
    \/ \E type \in PowerupTypes, own \in BOOLEAN : PowerupTimeout(type, own)
    \/ TimeWarpTimeout

\* C3: while the session is paused, no callback that the browser runs (a
\* frame, the interval, a powerup-expiry or time-warp timeout scheduled
\* before the pause) changes the ball, the remaining coins, extra lives and
\* powerups, the active powerups, timeScale or timeWarpActive.
C3_PausedIsFrozen ==
    [][(engine.isPaused /\ BrowserCallback)
        => PhysicsState(engine') = PhysicsState(engine)]_vars

noTimeoutPending(b) == \A kind \in TimeoutKinds : b.timeouts[kind] = 0

\* C5: right after stop(), restart() or loadLevel() no powerup-expiry and no
\* time-warp timeout is pending, and the expiry callback of a powerup whose
\* entry resetBall dropped changes nothing of the engine.
C5_CancelClearsTimeouts ==
    [][/\ (Stop \/ Restart \/ LoadLevel(0)) => noTimeoutPending(browser')
       /\ (\E type \in PowerupTypes : PowerupTimeout(type, FALSE)) => engine' = engine]_vars

\* the step was a call of activateTimeWarp
returned(evs) == Len(evs) = 1 /\ evs[1].name = "activateTimeWarp"

timeWarpFields(e) == <<e.timeScale, e.timeWarpActive, e.timeWarpUsed>>

\* C6: activateTimeWarp returns true only with time_control bought, no time
\* warp active and none used since the level was loaded, and then marks it
\* used; timeWarpUsed stays set through every step but loadLevel (restart
\* included), so at most one call succeeds between two loads or restarts;
\* a call that returns false leaves timeScale, timeWarpActive and
\* timeWarpUsed as they were.
C6_TimeWarpOnce ==
    [][/\ (returned(events') /\ ActivateTimeWarp /\ events'[1].result)
            => /\ storage.slowMotion /\ ~engine.timeWarpUsed /\ ~engine.timeWarpActive
               /\ engine'.timeWarpUsed
       /\ (/\ returned(events') /\ ActivateTimeWarp
           /\ (~storage.slowMotion \/ engine.timeWarpUsed \/ engine.timeWarpActive))
            => /\ ~events'[1].result
               /\ timeWarpFields(engine') = timeWarpFields(engine)
       /\ (engine.timeWarpUsed /\ ~engine'.timeWarpUsed) => LoadLevel(0)]_vars

\* a second press of the time-warp button, after the window of the first
\* has ended, returned false
C6_Witness ==
    /\ events = <<[name |-> "activateTimeWarp", result |-> FALSE]>>
    /\ storage.slowMotion
    /\ engine.timeWarpUsed
    /\ ~engine.timeWarpActive
    /\ engine.isRunning

\* C7: once a time warp is on (timeWarpActive, timeScale 0.4) it stays on
\* through every step, frames included, until its timeout runs (or the level
\* is loaded again); the timeout sets timeScale 1.0 and timeWarpActive false.
C7_WarpWindow ==
    [][/\ (/\ engine.timeWarpActive /\ engine.timeScale = SlowScale
           /\ ~TimeWarpTimeout /\ ~LoadLevel(0))
            => (engine'.timeWarpActive /\ engine'.timeScale = SlowScale)
       /\ TimeWarpTimeout
            => (~engine'.timeWarpActive /\ engine'.timeScale = NormalScale)]_vars

\* the runtime level state that a restart is to reset
RuntimeLevelState(w) ==
    [coins |-> w.engine.levelCoins,
     extraLives |-> w.engine.levelExtraLives,
     powerups |-> w.engine.levelPowerups,
     movingWalls |-> w.engine.levelMovingWalls,
     activePowerups |-> w.engine.activePowerups,
     timeScale |-> w.engine.timeScale,
     coinsCollected |-> w.engine.coinsCollectedThisLevel,
     ball |-> w.engine.ball,
     elapsedTime |-> w.engine.elapsedTime]

\* C8: from any state of a session, restart() twice leaves the runtime level
\* state that loadLevel() of the same level followed by start() produces.
C8_RestartIsFreshLoad ==
    hasLevel(This) =>
        RuntimeLevelState(restart(restart(This)))
            = RuntimeLevelState(start(loadLevel(stop(This), engine.levelIndex)))

\* C4: the elapsed time of the attempt never exceeds the time spent running
\* and not paused since start().
C4_ElapsedIsRunningTime == engine.elapsedTime <= runningTime

outcomes(evs) ==
    {i \in DOMAIN evs : evs[i].name \in {"onWin", "onLose", "onGameOver"}}

levelState(e) ==
    <<e.ball, e.levelCoins, e.coinsCollectedThisLevel, e.levelExtraLives,
      e.levelPowerups, e.activePowerups, e.levelMovingWalls>>

\* C9: onWin, onLose and onGameOver are invoked only by a frame that runs
\* while isRunning and not isPaused and ends with the ball on a hole or on
\* the goal, and that frame stops the engine; while the engine is stopped, a
\* step that changes the ball, the level state or the lives, or invokes one
\* of the three, is not a frame.
C9_OutcomeOnlyFromTick ==
    [][/\ outcomes(events') # {}
            => /\ Frame
               /\ engine.isRunning /\ ~engine.isPaused
               /\ ~engine'.isRunning
               /\ Cardinality(outcomes(events')) = 1
               /\ \/ engine'.ball.x \in engine.currentLevel.holes
                  \/ engine'.ball.x = engine.currentLevel.goal
       /\ (/\ ~engine.isRunning
           /\ \/ levelState(engine') # levelState(engine)
              \/ storage' # storage
              \/ outcomes(events') # {})
            => ~Frame]_vars

\* the ball has fallen (or reached the goal), the engine is stopped, and the
\* frame that gameLoop requested after update() is still to run
C9_Witness ==
    /\ outcomes(events) # {}
    /\ ~engine.isRunning
    /\ browser.frames > 0
    /\ engine.animationFrameId = "pending"

\* the outcome that the life count left after a fall calls for
fallOutcome(remaining) ==
    IF remaining > 0 THEN [name |-> "onLose", arg |-> remaining]
    ELSE [name |-> "onGameOver"]

\* what the step told the UI about lives and the end of the attempt
lifeEvents(evs) ==
    SelectSeq(evs, LAMBDA e : e.name \in {"onLifeLost", "onLose", "onGameOver", "onWin"})

\* C10: a frame that ends with the ball in a hole stops the engine, takes
\* one life (none when none is left), reports the remaining lives by
\* onLifeLost and then invokes onLose(remaining) if remaining > 0, else
\* onGameOver, never both.
C10_FallTakesOneLife ==
    [][(Frame /\ engine.isRunning /\ ~engine.isPaused
              /\ engine'.ball.x \in engine.currentLevel.holes)
        => /\ ~engine'.isRunning
           /\ storage'.lives = Max(0, storage.lives - 1)
           /\ lifeEvents(events') = <<[name |-> "onLifeLost", arg |-> storage'.lives],
                                      fallOutcome(storage'.lives)>>]_vars

(***************************************************************************)
(* SpecStars: calculateStars on a level whose thresholds are any list of   *)
(* at most three entries, ordered or not, after any elapsed time.  A        *)
(* threshold of -1 is one that no time reaches, the way a comparison with   *)
(* undefined or NaN is false.                                              *)
(***************************************************************************)
\* thresholds and elapsed times, in interval periods
MaxStarTime == 3

StarThresholds == -1..MaxStarTime

\* this.currentLevel.starTimes: missing, too short, or three entries
StarTargets ==
    {<<>>}
    \cup {<<a>> : a \in StarThresholds}
    \cup {<<a, b>> : a \in StarThresholds, b \in StarThresholds}
    \cup {<<a, b, c>> : a \in StarThresholds, b \in StarThresholds, c \in StarThresholds}

StarTimesOf == 0..(MaxStarTime + 1)

InitStars ==
    /\ GeneratorIdle
    /\ \E targets \in StarTargets, time \in StarTimesOf :
            engine = resetBall([engine |-> [NewEngine EXCEPT
                                    !.levelIndex = 1,
                                    !.currentLevel = [HoleLevel EXCEPT !.starTimes = targets],
                                    !.elapsedTime = time],
                                browser |-> NewBrowser,
                                storage |-> NewStorage(FALSE),
                                events |-> <<>>]).engine
    /\ browser = NewBrowser
    /\ storage = NewStorage(FALSE)
    /\ events = <<>>
    /\ runningTime = 0

\* handleWin, line 918: const stars = this.calculateStars(time)
CalculateStars ==
    /\ events = <<>>
    /\ events' = <<[name |-> "calculateStars",
                    result |-> calculateStars(engine.currentLevel.starTimes,
                                              engine.elapsedTime)]>>
    /\ UNCHANGED <<engine, browser, storage, runningTime, genVars, mazeVars>>

NextStars == CalculateStars

SpecStars == InitStars /\ [][NextStars]_vars

\* the rating the three thresholds call for
starsFor(targets, time) ==
    IF time <= targets[3] THEN 3 ELSE IF time <= targets[2] THEN 2 ELSE 1

starsReturned == Len(events) = 1 /\ events[1].name = "calculateStars"

\* C11: calculateStars returns 3 if time <= t2, else 2 if time <= t1, else
\* 1 for thresholds [t0, t1, t2]; the rating is between 1 and 3 whatever the
\* thresholds are (missing, too short, unordered, unreachable); and no
\* later time on the same level is rated higher.
C11_StarsMonotone ==
    starsReturned =>
        /\ events[1].result \in 1..3
        /\ Len(engine.currentLevel.starTimes) = 3
            => events[1].result = starsFor(engine.currentLevel.starTimes, engine.elapsedTime)
        /\ \A later \in StarTimesOf :
                later >= engine.elapsedTime
                    => calculateStars(engine.currentLevel.starTimes, later) <= events[1].result

\* two stars: the time is over the three-star threshold and within the
\* two-star one
C11_Witness ==
    /\ starsReturned
    /\ events[1].result = 2
    /\ Len(engine.currentLevel.starTimes) = 3
    /\ engine.currentLevel.starTimes[3] < engine.elapsedTime
    /\ engine.elapsedTime <= engine.currentLevel.starTimes[2]

(***************************************************************************)
(* The hole test on the plane.  The sessions above keep the ball on the    *)
(* cells of a corridor; here the ball and the holes have the coordinates   *)
(* of the source, x and y and a radius in one unit of length, which the    *)
(* specification chooses.                                                  *)
(***************************************************************************)
\* (a.x - b.x) ** 2 + (a.y - b.y) ** 2
distance2(a, b) == (a.x - b.x) * (a.x - b.x) + (a.y - b.y) * (a.y - b.y)

\* a hole test that lets the ball fall on the rim of the fair zone
checkHoleCollisionOnRim(ball, holes) ==
    \E i \in 1..Len(holes) :
        distance2(ball, holes[i]) <= (289 * holes[i].radius * holes[i].radius) \div 400

\* checkHoleCollision, lines 635-650: distance < hole.radius * 0.85 for some
\* hole.  With both sides squared and 0.85 written 17 / 20 the test is
\* 400 * distance2 < 289 * radius * radius, which on whole numbers is
\* distance2 <= (289 * radius * radius - 1) / 400 rounded down.
checkHoleCollisionAt(ball, holes) ==
    \E i \in 1..Len(holes) :
        distance2(ball, holes[i]) <= (289 * holes[i].radius * holes[i].radius - 1) \div 400

(***************************************************************************)
(* SpecHole: checkHoleCollision for a ball anywhere around a hole.  The     *)
(* unit is a hundredth of a pixel.                                         *)
(***************************************************************************)
\* the ball's centre is at most this far from the hole's, on the x axis
MaxOffset == 1400

\* hole.radius = 10 + Math.floor(rng() * 4) pixels (LevelGenerator.js:323)
HoleRadii == {1000, 1100, 1200, 1300}
\* ballRadius of the first and of the last level, and the constructor's
BallRadii == {700, 1200, 1500}
\* the ball is on the hole's row, or lower by one of these
RowOffsets == {0, 1, 600}

\* a hole that the ball is nowhere near, and the hole under test
HoleCentre == [x |-> 5000, y |-> 5000]
FarHole    == [x |-> 5000, y |-> 1000, radius |-> 1300]

InitHole ==
    /\ GeneratorIdle
    /\ \E radius \in HoleRadii, ballRadius \in BallRadii,
          dx \in (-MaxOffset)..MaxOffset, dy \in RowOffsets :
            engine = [NewEngine EXCEPT
                        !.isRunning = TRUE,
                        !.levelIndex = 1,
                        !.currentLevel =
                            [name |-> "holes",
                             holes |-> <<FarHole,
                                         [x |-> HoleCentre.x, y |-> HoleCentre.y,
                                          radius |-> radius]>>],
                        !.ball = [x |-> HoleCentre.x + dx, y |-> HoleCentre.y + dy,
                                  vx |-> 0, vy |-> 0, radius |-> ballRadius]]
    /\ browser = NewBrowser
    /\ storage = NewStorage(FALSE)
    /\ events = <<>>
    /\ runningTime = 0

\* update, line 485: if (this.checkHoleCollision())
CheckHoleCollision ==
    /\ events = <<>>
    /\ events' = <<[name |-> "checkHoleCollision",
                    result |-> checkHoleCollisionAt(engine.ball, engine.currentLevel.holes)]>>
    /\ UNCHANGED <<engine, browser, storage, runningTime, genVars, mazeVars>>

NextHole == CheckHoleCollision

SpecHole == InitHole /\ [][NextHole]_vars

holeTested == Len(events) = 1 /\ events[1].name = "checkHoleCollision"

\* 0.85 * radius, a whole number of hundredths for the radii of HoleRadii
fairRadius(radius) == (85 * radius) \div 100

CoinRadius      == 1200
ExtraLifeRadius == 1400

\* a value that is missing from a definition
Undefined == [name |-> "undefined"]
isUndefined(v) == "name" \in DOMAIN v /\ v.name = "undefined"

\* an assignment that keeps the definition's array and its elements
sameArray(items) == [items |-> items, shared |-> TRUE]

\* (array || []).map(c => ({ ...c })): a new array of new objects
copyOf(items) == [items |-> items, shared |-> FALSE]

\* LevelManager.getLevel on this.levelManager
getLevelAt(w, index) ==
    IF index < 0 \/ index >= Len(w.engine.levelManager.levels) THEN NullLevel
    ELSE w.engine.levelManager.levels[index + 1]

\* a write of the runtime array this[field]; through a shared array it
\* reaches this.currentLevel[key] and the cached definition
storeItems(w, field, key, items) ==
    IF w.engine[field].shared
    THEN [w EXCEPT !.engine[field].items = items,
                   !.engine.currentLevel[key] = items,
                   !.engine.levelManager.levels[w.engine.levelIndex + 1][key] = items]
    ELSE [w EXCEPT !.engine[field].items = items]

\* { ...p, collected: false }
uncollected(powerups) ==
    [i \in DOMAIN powerups |->
        [x |-> powerups[i].x, y |-> powerups[i].y, type |-> powerups[i].type,
         radius |-> powerups[i].radius, collected |-> FALSE]]

\* { ...w, currentX: w.originalX, currentY: w.originalY, time: 0 }
atRest(movingWalls) ==
    [i \in DOMAIN movingWalls |->
        [originalX |-> movingWalls[i].originalX, originalY |-> movingWalls[i].originalY,
         width |-> movingWalls[i].width, height |-> movingWalls[i].height,
         direction |-> movingWalls[i].direction, range |-> movingWalls[i].range,
         currentX |-> movingWalls[i].originalX, currentY |-> movingWalls[i].originalY]]

\* resetBall, lines 257-287
resetBallAt(w) ==
    IF ~hasLevel(w) THEN w
    ELSE [w EXCEPT
            !.engine.ball = [x |-> w.engine.currentLevel.start.x,
                             y |-> w.engine.currentLevel.start.y,
                             vx |-> 0, vy |-> 0,
                             radius |-> w.engine.currentLevel.ballRadius],
            !.engine.levelCoins = copyOf(w.engine.currentLevel.coins),
            !.engine.coinsCollectedThisLevel = 0,
            !.engine.levelExtraLives = copyOf(w.engine.currentLevel.extraLives),
            !.engine.levelPowerups = copyOf(uncollected(w.engine.currentLevel.powerups)),
            !.engine.activePowerups = [type \in PowerupTypes |-> Absent],
            !.engine.levelMovingWalls = copyOf(atRest(w.engine.currentLevel.movingWalls))]

\* loadLevel, lines 204-255, past the test of this.currentLevel
loadLevelAt(w, levelIndex) ==
    IF getLevelAt(w, levelIndex).name = "null"
    THEN [w EXCEPT !.engine.levelIndex = levelIndex, !.engine.currentLevel = NullLevel]
    ELSE Bind(resetBallAt([w EXCEPT !.engine.levelIndex = levelIndex,
                                    !.engine.currentLevel = getLevelAt(w, levelIndex),
                                    !.engine.timeScale = NormalScale,
                                    !.engine.timeWarpActive = FALSE,
                                    !.engine.timeWarpUsed = FALSE]),
              LAMBDA reset :
                [reset EXCEPT
                    !.engine.levelBouncePads = copyOf(reset.engine.currentLevel.bouncePads),
                    !.engine.levelSpeedZones = copyOf(reset.engine.currentLevel.speedZones)])

\* restart, lines 361-367
restartAt(w) == start(resetBallAt(stop(w)))

(***************************************************************************)
(* update() on the plane.  Lengths are in hundredths of a pixel and        *)
(* velocities in hundredths of a pixel per frame period (1/60 s); the tick  *)
(* lasts `steps` frame periods, deltaTime * 60, at most 3 because gameLoop  *)
(* caps deltaTime at 0.05 s.  Products that the source forms in floating    *)
(* point are rounded toward zero to a whole number of hundredths.           *)
(***************************************************************************)
\* this.maxSpeed and this.gravity * 60 / 60, in hundredths
MaxSpeed == 1200
Gravity  == 50
\* Math.min(..., 0.05) * 60
MaxSteps == 3

\* a / b rounded toward zero, b > 0
truncDiv(a, b) == IF a >= 0 THEN a \div b ELSE -((-a) \div b)

\* the smallest r in lo..hi with r * r >= n
RECURSIVE sqrtUp(_, _, _)
sqrtUp(n, lo, hi) ==
    IF lo >= hi THEN lo
    ELSE IF ((lo + hi) \div 2) * ((lo + hi) \div 2) >= n
    THEN sqrtUp(n, lo, (lo + hi) \div 2)
    ELSE sqrtUp(n, (lo + hi) \div 2 + 1, hi)

speed2(ball) == ball.vx * ball.vx + ball.vy * ball.vy

\* lines 412-418: input.x * this.gravity * sensitivity * 60 * deltaTime
\* added to the velocity; sensitivity is 1
tiltAcceleration(ball, input, steps) ==
    [ball EXCEPT !.vx = @ + input.x * Gravity * steps,
                 !.vy = @ + input.y * Gravity * steps]

\* Math.pow(this.ball.friction, deltaTime * 60) as a fraction
frictionOf(steps) ==
    IF steps = 1 THEN [num |-> 98, den |-> 100]
    ELSE IF steps = 2 THEN [num |-> 9604, den |-> 10000]
    ELSE [num |-> 941192, den |-> 1000000]

\* lines 421-422
applyFriction(ball, steps) ==
    [ball EXCEPT !.vx = truncDiv(@ * frictionOf(steps).num, frictionOf(steps).den),
                 !.vy = truncDiv(@ * frictionOf(steps).num, frictionOf(steps).den)]

\* a clamp that lets every speed through
clampNothing(ball) == ball

\* lines 425-429: the velocity rescaled to maxSpeed when it is faster
clampVelocity(ball) ==
    IF speed2(ball) > MaxSpeed * MaxSpeed
    THEN Bind(sqrtUp(speed2(ball), 0, 4 * MaxSpeed), LAMBDA speed :
            [ball EXCEPT !.vx = truncDiv(@ * MaxSpeed, speed),
                         !.vy = truncDiv(@ * MaxSpeed, speed)])
    ELSE ball

\* Math.max(lo, Math.min(v, hi))
clampTo(v, lo, hi) == Max(lo, Min(v, hi))

\* the circle of radius r around (cx, cy) reaches into the rectangle
circleOverlaps(cx, cy, r, rect) ==
    (cx - clampTo(cx, rect.left, rect.right)) * (cx - clampTo(cx, rect.left, rect.right))
    + (cy - clampTo(cy, rect.top, rect.bottom)) * (cy - clampTo(cy, rect.top, rect.bottom))
        < r * r

\* lines 534-537
edgesOf(wall) ==
    [left |-> wall.x, right |-> wall.x + wall.width,
     top |-> wall.y, bottom |-> wall.y + wall.height]

\* lines 574-577
movingEdgesOf(wall) ==
    [left |-> wall.currentX, right |-> wall.currentX + wall.width,
     top |-> wall.currentY, bottom |-> wall.currentY + wall.height]

\* lines 539-569, the body of the loop for one rectangle: the x test at
\* (newX, ball.y), then the y test at (ball.x, newY)
collideWith(result, ball, rect, newX, newY) ==
    [x |-> result.x \/ circleOverlaps(newX, ball.y, ball.radius, rect),
     newX |-> IF circleOverlaps(newX, ball.y, ball.radius, rect)
              THEN (IF newX < rect.left THEN rect.left - ball.radius
                    ELSE IF newX > rect.right THEN rect.right + ball.radius
                    ELSE result.newX)
              ELSE result.newX,
     y |-> result.y \/ circleOverlaps(ball.x, newY, ball.radius, rect),
     newY |-> IF circleOverlaps(ball.x, newY, ball.radius, rect)
              THEN (IF newY < rect.top THEN rect.top - ball.radius
                    ELSE IF newY > rect.bottom THEN rect.bottom + ball.radius
                    ELSE result.newY)
              ELSE result.newY]

\* the loop over rects[i .. Len(rects)]
RECURSIVE collideWithAll(_, _, _, _, _, _)
collideWithAll(result, ball, rects, i, newX, newY) ==
    IF i > Len(rects) THEN result
    ELSE collideWithAll(collideWith(result, ball, rects[i], newX, newY),
                        ball, rects, i + 1, newX, newY)

\* lines 612-630: the boundary of the maze
collideWithBoundary(result, ball, currentLevel, newX, newY) ==
    [x |-> result.x \/ newX - ball.radius < 0 \/ newX + ball.radius > currentLevel.width,
     newX |-> IF newX - ball.radius < 0 THEN ball.radius
              ELSE IF newX + ball.radius > currentLevel.width THEN currentLevel.width - ball.radius
              ELSE result.newX,
     y |-> result.y \/ newY - ball.radius < 0 \/ newY + ball.radius > currentLevel.height,
     newY |-> IF newY - ball.radius < 0 THEN ball.radius
              ELSE IF newY + ball.radius > currentLevel.height THEN currentLevel.height - ball.radius
              ELSE result.newY]

\* lines 527-633: the static walls, the moving walls, the boundary
checkWallCollisions(w, newX, newY) ==
    collideWithBoundary(
        collideWithAll(
            collideWithAll([x |-> FALSE, y |-> FALSE,
                            newX |-> w.engine.ball.x, newY |-> w.engine.ball.y],
                           w.engine.ball,
                           [i \in DOMAIN w.engine.currentLevel.walls |->
                                edgesOf(w.engine.currentLevel.walls[i])],
                           1, newX, newY),
            w.engine.ball,
            [i \in DOMAIN w.engine.levelMovingWalls.items |->
                movingEdgesOf(w.engine.levelMovingWalls.items[i])],
            1, newX, newY),
        w.engine.ball, w.engine.currentLevel, newX, newY)

\* lines 446-463: the bounce on the x axis, or the move.  deflect is
\* (Math.random() - 0.5) * 2
resolveX(w, collision, newX, deflect) ==
    IF collision.x
    THEN [emit(w, [name |-> "onWallHit"]) EXCEPT
            !.engine.ball.vx = truncDiv(@ * (-9), 10),
            !.engine.ball.vy = @ + deflect,
            !.engine.ball.x = collision.newX]
    ELSE [w EXCEPT !.engine.ball.x = newX]

\* lines 465-482
resolveY(w, collision, newY, deflect) ==
    IF collision.y
    THEN [emit(w, [name |-> "onWallHit"]) EXCEPT
            !.engine.ball.vy = truncDiv(@ * (-9), 10),
            !.engine.ball.vx = @ + deflect,
            !.engine.ball.y = collision.newY]
    ELSE [w EXCEPT !.engine.ball.y = newY]

\* lines 412-482: the velocity, the tentative position, the collisions
moveAt(w, input, steps, deflect) ==
    Bind(clampVelocity(applyFriction(tiltAcceleration(w.engine.ball, input, steps), steps)),
         LAMBDA ball :
    Bind(checkWallCollisions(w, ball.x + ball.vx * steps, ball.y + ball.vy * steps),
         LAMBDA collision :
            resolveY(resolveX([w EXCEPT !.engine.ball = ball],
                              collision, ball.x + ball.vx * steps, deflect.x),
                     collision, ball.y + ball.vy * steps, deflect.y)))

\* lines 652-660
checkGoalCollisionAt(ball, goal) == distance2(ball, goal) < goal.radius * goal.radius

\* lines 835-873: every pad that the ball overlaps sets one component
RECURSIVE checkBouncePadCollision(_, _)
checkBouncePadCollision(w, i) ==
    IF i > Len(w.engine.levelBouncePads.items) THEN w
    ELSE Bind(w.engine.levelBouncePads.items[i], LAMBDA pad :
        IF /\ 2 * (w.engine.ball.x + w.engine.ball.radius) > 2 * pad.x - pad.width
           /\ 2 * (w.engine.ball.x - w.engine.ball.radius) < 2 * pad.x + pad.width
           /\ 2 * (w.engine.ball.y + w.engine.ball.radius) > 2 * pad.y - pad.height
           /\ 2 * (w.engine.ball.y - w.engine.ball.radius) < 2 * pad.y + pad.height
        THEN checkBouncePadCollision(
                [emit(w, [name |-> "bumper"]) EXCEPT
                    !.engine.ball.vx = IF pad.direction = "left" THEN -pad.force
                                       ELSE IF pad.direction = "right" THEN pad.force
                                       ELSE @,
                    !.engine.ball.vy = IF pad.direction = "up" THEN -pad.force
                                       ELSE IF pad.direction = "down" THEN pad.force
                                       ELSE @],
                i + 1)
        ELSE checkBouncePadCollision(w, i + 1))

\* lines 875-892: every zone that holds the ball's centre scales the velocity
RECURSIVE applySpeedZoneEffects(_, _)
applySpeedZoneEffects(w, i) ==
    IF i > Len(w.engine.levelSpeedZones.items) THEN w
    ELSE Bind(w.engine.levelSpeedZones.items[i], LAMBDA zone :
        IF /\ w.engine.ball.x > zone.x /\ w.engine.ball.x < zone.x + zone.width
           /\ w.engine.ball.y > zone.y /\ w.engine.ball.y < zone.y + zone.height
        THEN applySpeedZoneEffects(
                [w EXCEPT
                    !.engine.ball.vx = truncDiv(@ * (IF zone.type = "fast" THEN 102
                                                     ELSE IF zone.type = "slow" THEN 95
                                                     ELSE 100), 100),
                    !.engine.ball.vy = truncDiv(@ * (IF zone.type = "fast" THEN 102
                                                     ELSE IF zone.type = "slow" THEN 95
                                                     ELSE 100), 100)],
                i + 1)
        ELSE applySpeedZoneEffects(w, i + 1))

\* the largest r in lo..hi with r * r <= n: Math.sqrt rounded down
RECURSIVE sqrtDown(_, _, _)
sqrtDown(n, lo, hi) ==
    IF lo >= hi THEN lo
    ELSE IF ((lo + hi + 1) \div 2) * ((lo + hi + 1) \div 2) <= n
    THEN sqrtDown(n, (lo + hi + 1) \div 2, hi)
    ELSE sqrtDown(n, lo, (lo + hi + 1) \div 2 - 1)

\* lines 674-680: the coin pulled toward the ball by the Coin Magnet, by
\* dx / distance * 0.15 * (magnetRadius - distance) on each axis
pullCoin(coin, ball, magnetRadius) ==
    Bind(sqrtDown(distance2(ball, coin), 0, 4 * magnetRadius), LAMBDA distance :
        IF /\ magnetRadius > 0
           /\ distance2(ball, coin) < magnetRadius * magnetRadius
           /\ distance2(ball, coin) > (ball.radius + CoinRadius) * (ball.radius + CoinRadius)
        THEN [coin EXCEPT
                !.x = @ + truncDiv((ball.x - coin.x) * 15 * (magnetRadius - distance),
                                   100 * distance),
                !.y = @ + truncDiv((ball.y - coin.y) * 15 * (magnetRadius - distance),
                                   100 * distance)]
        ELSE coin)

\* items without the element at index i: splice(i, 1)
splice(items, i) == SubSeq(items, 1, i - 1) \o SubSeq(items, i + 1, Len(items))

\* lines 667-705: the loop from coin i down to the first
RECURSIVE collectCoins(_, _)
collectCoins(w, i) ==
    IF i = 0 THEN w
    ELSE Bind(w.engine.levelCoins.items[i], LAMBDA coin :
         Bind(storeItems(w, "levelCoins", "coins",
                         [w.engine.levelCoins.items EXCEPT
                            ![i] = pullCoin(coin, w.engine.ball, w.storage.magnetRadius)]),
              LAMBDA pulled :
            IF distance2(w.engine.ball, coin)
                < (w.engine.ball.radius + CoinRadius) * (w.engine.ball.radius + CoinRadius)
            THEN collectCoins(
                    emit([storeItems(pulled, "levelCoins", "coins",
                                     splice(pulled.engine.levelCoins.items, i))
                            EXCEPT !.engine.coinsCollectedThisLevel = @ + 1],
                         [name |-> "onCoinCollected",
                          arg |-> w.engine.coinsCollectedThisLevel + 1]),
                    i - 1)
            ELSE collectCoins(pulled, i - 1)))

\* a coin check that leaves the counter as it was
checkCoinCollisionUncounted(w) ==
    [collectCoins(w, Len(w.engine.levelCoins.items))
        EXCEPT !.engine.coinsCollectedThisLevel = w.engine.coinsCollectedThisLevel]

\* lines 662-706
checkCoinCollisionAt(w) == collectCoins(w, Len(w.engine.levelCoins.items))

\* lines 709-738: the loop from extra life i down to the first
RECURSIVE collectExtraLives(_, _)
collectExtraLives(w, i) ==
    IF i = 0 THEN w
    ELSE IF distance2(w.engine.ball, w.engine.levelExtraLives.items[i])
            < (w.engine.ball.radius + ExtraLifeRadius)
                * (w.engine.ball.radius + ExtraLifeRadius)
    THEN collectExtraLives(
            emit([storeItems(w, "levelExtraLives", "extraLives",
                             splice(w.engine.levelExtraLives.items, i))
                    EXCEPT !.storage.lives = addLife(@)],
                 [name |-> "onLifeCollected", arg |-> addLife(w.storage.lives)]),
            i - 1)
    ELSE collectExtraLives(w, i - 1)

\* lines 708-739
checkExtraLifeCollisionAt(w) == collectExtraLives(w, Len(w.engine.levelExtraLives.items))

\* lines 744-766: the loop from powerup i down to the first
RECURSIVE collectPowerupsAt(_, _)
collectPowerupsAt(w, i) ==
    IF i = 0 THEN w
    ELSE Bind(w.engine.levelPowerups.items[i], LAMBDA powerup :
        IF /\ ~powerup.collected
           /\ distance2(w.engine.ball, powerup)
                < (w.engine.ball.radius + powerup.radius)
                    * (w.engine.ball.radius + powerup.radius)
        THEN collectPowerupsAt(
                activatePowerup(
                    storeItems(w, "levelPowerups", "powerups",
                               [w.engine.levelPowerups.items EXCEPT ![i].collected = TRUE]),
                    powerup.type),
                i - 1)
        ELSE collectPowerupsAt(w, i - 1))

\* lines 741-767
checkPowerupCollisionAt(w) == collectPowerupsAt(w, Len(w.engine.levelPowerups.items))

\* lines 894-907: Math.sin(...) * wall.range is swing * wall.range, swing
\* one of -1, 0, 1
updateMovingWallsAt(w, swing) ==
    storeItems(w, "levelMovingWalls", "movingWalls",
        [i \in DOMAIN w.engine.levelMovingWalls.items |->
            Bind(w.engine.levelMovingWalls.items[i], LAMBDA wall :
                IF wall.direction = "horizontal"
                THEN [wall EXCEPT !.currentX = wall.originalX + swing * wall.range]
                ELSE [wall EXCEPT !.currentY = wall.originalY + swing * wall.range])])

\* an update that tests the goal before the holes
afterMoveGoalFirst(w, swing) ==
    IF checkGoalCollisionAt(w.engine.ball, w.engine.currentLevel.goal) THEN handleWin(w)
    ELSE IF checkHoleCollisionAt(w.engine.ball, w.engine.currentLevel.holes)
    THEN handleLose(w)
    ELSE updateActivePowerups(updateMovingWallsAt(
            applySpeedZoneEffects(
                checkBouncePadCollision(
                    checkPowerupCollisionAt(checkExtraLifeCollisionAt(checkCoinCollisionAt(w))),
                    1),
                1),
            swing))

\* lines 484-515: the hole, the goal, then the pickups and the rest
afterMoveAt(w, swing) ==
    IF checkHoleCollisionAt(w.engine.ball, w.engine.currentLevel.holes) THEN handleLose(w)
    ELSE IF checkGoalCollisionAt(w.engine.ball, w.engine.currentLevel.goal) THEN handleWin(w)
    ELSE updateActivePowerups(updateMovingWallsAt(
            applySpeedZoneEffects(
                checkBouncePadCollision(
                    checkPowerupCollisionAt(checkExtraLifeCollisionAt(checkCoinCollisionAt(w))),
                    1),
                1),
            swing))

\* update, lines 404-525
updateAt(w, input, steps, deflect, swing) ==
    Bind(moveAt(w, input, steps, deflect), LAMBDA moved : afterMoveAt(moved, swing))

\* gameLoop, lines 387-402
gameLoopAt(w, input, steps, deflect, swing) ==
    IF frameSkipped(w) THEN w
    ELSE requestAnimationFrame(updateAt(w, input, steps, deflect, swing))

(***************************************************************************)
(* The engine on the plane, as constructed, and a level for the physics:   *)
(* 144 x 72 pixels, a wall 8 pixels thick that comes down from the top to   *)
(* leave a passage below it, a bounce pad and a fast zone on the floor, a   *)
(* hole in the top left corner and the goal in the top right one.           *)
(***************************************************************************)
NewEngineAt(levels) ==
    [ball |-> [x |-> 0, y |-> 0, vx |-> 0, vy |-> 0, radius |-> 100 * DefaultRadius],
     levelCoins |-> copyOf(<<>>), levelExtraLives |-> copyOf(<<>>),
     levelPowerups |-> copyOf(<<>>), levelBouncePads |-> copyOf(<<>>),
     levelSpeedZones |-> copyOf(<<>>), levelMovingWalls |-> copyOf(<<>>),
     levelManager |-> [levels |-> levels]] @@ NewEngine

\* the shop data with the Coin Magnet bought (effects.magnetRadius) or not
NewStorageAt(magnetRadius) ==
    [lives |-> DefaultLives, slowMotion |-> FALSE, magnetRadius |-> magnetRadius]

\* the engine, the browser and the shop before the first call
NewWorld(levels, magnetRadius) ==
    [engine |-> NewEngineAt(levels), browser |-> NewBrowser,
     storage |-> NewStorageAt(magnetRadius), events |-> <<>>]

PhysicsArena ==
    [name |-> "arena", width |-> 14400, height |-> 7200, ballRadius |-> 1200,
     start |-> [x |-> 1200, y |-> 6000],
     goal |-> [x |-> 13200, y |-> 1400, radius |-> 1400],
     walls |-> <<[x |-> 6800, y |-> 0, width |-> 800, height |-> 4000]>>,
     holes |-> <<[x |-> 1200, y |-> 1200, radius |-> 1200]>>,
     coins |-> <<>>, extraLives |-> <<>>, powerups |-> <<>>,
     bouncePads |-> <<[x |-> 3400, y |-> 6700, width |-> 2500, height |-> 1000,
                       direction |-> "up", force |-> 1500]>>,
     speedZones |-> <<[x |-> 9000, y |-> 2000, width |-> 5000, height |-> 5000,
                       type |-> "fast", multiplier |-> 20]>>,
     movingWalls |-> <<>>,
     starTimes |-> <<2, 1, 0>>]

\* where the ball is, and how fast, when the exploration begins
BallXs == {1200, 3400, 5600, 8800, 11000, 13200}
BallYs == {1200, 3600, 6000}
BallSpeeds == {-1200, -600, 0, 600, 1200}

\* input.x and input.y of getTilt(); (Math.random() - 0.5) * 2 on each axis
TiltInputs == {[x |-> tx, y |-> ty] : tx \in Tilts, ty \in Tilts}
Deflections == {[x |-> dx, y |-> dy] : dx \in {-100, 100}, dy \in {-100, 100}}
Swings == {-1, 0, 1}

\* the ball's circle reaches into no static wall of the level
clearOfWalls(ball, walls) ==
    \A i \in 1..Len(walls) : ~circleOverlaps(ball.x, ball.y, ball.radius, edgesOf(walls[i]))

(***************************************************************************)
(* SpecPhysics: ticks of a running session on the arena, the ball anywhere  *)
(* clear of the wall and at any speed up to maxSpeed.  The clock counts     *)
(* frame periods.                                                           *)
(***************************************************************************)
\* the frame periods that the ticks of one exploration take together
MaxPhysicsTime == 3

InitPhysics ==
    /\ GeneratorIdle
    /\ \E bx \in BallXs, by \in BallYs, bvx \in BallSpeeds, bvy \in BallSpeeds :
        \E begun \in {start(loadLevelAt(NewWorld(<<PhysicsArena>>, 0), 0))} :
            /\ bvx * bvx + bvy * bvy <= MaxSpeed * MaxSpeed
            /\ engine = [begun.engine EXCEPT !.ball.x = bx, !.ball.y = by,
                                             !.ball.vx = bvx, !.ball.vy = bvy]
            /\ clearOfWalls(engine.ball, PhysicsArena.walls)
            /\ ~checkHoleCollisionAt(engine.ball, PhysicsArena.holes)
            /\ ~checkGoalCollisionAt(engine.ball, PhysicsArena.goal)
            /\ browser = begun.browser
            /\ storage = begun.storage
    /\ events = <<>>
    /\ runningTime = 0

\* the browser runs the frame that animationFrameId names, `steps` frame
\* periods after the one before
PhysicsTick(input, steps, deflect, swing) ==
    /\ engine.animationFrameId = "pending"
    /\ browser.now + steps <= MaxPhysicsTime
    /\ Becomes(gameLoopAt([This EXCEPT !.browser.frames = @ - 1,
                                       !.browser.now = @ + steps,
                                       !.engine.animationFrameId = "spent"],
                          input, steps, deflect, swing))
    /\ UNCHANGED runningTime

NextPhysics ==
    \E input \in TiltInputs, steps \in 1..MaxSteps, deflect \in Deflections :
        PhysicsTick(input, steps, deflect, 0)

SpecPhysics == InitPhysics /\ [][NextPhysics]_vars

\* the centre of the ball is inside the rectangle
centreInside(ball, rect) ==
    /\ ball.x > rect.left /\ ball.x < rect.right
    /\ ball.y > rect.top /\ ball.y < rect.bottom

\* the ball faced the rectangle across one of its sides and is now beyond
\* the opposite side
crossedOver(before, after, rect) ==
    \/ /\ before.y >= rect.top /\ before.y <= rect.bottom
       /\ after.y >= rect.top /\ after.y <= rect.bottom
       /\ \/ before.x <= rect.left /\ after.x >= rect.right
          \/ before.x >= rect.right /\ after.x <= rect.left
    \/ /\ before.x >= rect.left /\ before.x <= rect.right
       /\ after.x >= rect.left /\ after.x <= rect.right
       /\ \/ before.y <= rect.top /\ after.y >= rect.bottom
          \/ before.y >= rect.bottom /\ after.y <= rect.top

\* C13: a tick of at most 0.05 s that begins with the ball clear of every
\* static wall, at a speed of at most maxSpeed, ends with the ball's centre
\* neither inside a wall rectangle nor on the far side of one it was facing.
C13_NoTunneling ==
    [][(/\ browser'.now # browser.now
        /\ engine.isRunning /\ ~engine.isPaused
        /\ speed2(engine.ball) <= MaxSpeed * MaxSpeed
        /\ clearOfWalls(engine.ball, engine.currentLevel.walls))
        => \A i \in 1..Len(engine.currentLevel.walls) :
            /\ ~centreInside(engine'.ball, edgesOf(engine.currentLevel.walls[i]))
            /\ ~crossedOver(engine.ball, engine'.ball,
                            edgesOf(engine.currentLevel.walls[i]))]_vars

\* C19: in every state of a session, before and after any tick, the speed
\* of the ball is at most maxSpeed = 12.
C19_SpeedCapped == speed2(engine.ball) <= MaxSpeed * MaxSpeed

(***************************************************************************)
(* Placement in the levels generateLevel returns (SpecLevels).  Positions  *)
(* are in half pixels as the generator model keeps them.                    *)
(***************************************************************************)
\* the items of a sequence all keep `num / den` cell sizes from a point
allClearOf(items, point, cellSize, num, den) ==
    \A i \in 1..Len(items) : ~closerThan(items[i], point, cellSize, num, den)

\* any two items of a sequence are at least `num / den` cell sizes apart
apart(items, cellSize, num, den) ==
    \A i \in 1..Len(items) : \A j \in 1..Len(items) :
        i < j => ~closerThan(items[i], items[j], cellSize, num, den)

placedItems(definition) ==
    definition.holes \o definition.coins \o definition.extraLives
    \o definition.powerups \o definition.bouncePads

\* C14: in every MazeDefinition generateLevel returns, no hole, coin, extra
\* life, powerup or bounce pad is within 1.5 cell sizes of the start, holes,
\* extra lives and bounce pads are not within 1.5 cell sizes of the goal, and
\* coins and powerups are not within 1 cell size of it.
C14_StartGoalClearance ==
    level # NoLevel =>
        /\ allClearOf(placedItems(level), level.start,
                      levelGeometry(level.id).cellSize, 3, 2)
        /\ allClearOf(level.holes \o level.extraLives \o level.bouncePads, level.goal,
                      levelGeometry(level.id).cellSize, 3, 2)
        /\ allClearOf(level.coins \o level.powerups, level.goal,
                      levelGeometry(level.id).cellSize, 1, 1)

\* C15: in every MazeDefinition generateLevel returns, two holes are at
\* least 1 cell size apart, two coins 0.8, two powerups 1.5, two bounce pads
\* 2 and two speed zones 2.
C15_PairwiseSeparation ==
    level # NoLevel =>
        /\ apart(level.holes, levelGeometry(level.id).cellSize, 1, 1)
        /\ apart(level.coins, levelGeometry(level.id).cellSize, 4, 5)
        /\ apart(level.powerups, levelGeometry(level.id).cellSize, 3, 2)
        /\ apart(level.bouncePads, levelGeometry(level.id).cellSize, 2, 1)
        /\ apart(level.speedZones, levelGeometry(level.id).cellSize, 2, 1)

\* a level returned with two items or more in every one of the categories
C15_Witness ==
    /\ level # NoLevel
    /\ Len(level.holes) >= 2 /\ Len(level.coins) >= 2 /\ Len(level.powerups) >= 2
    /\ Len(level.bouncePads) >= 2 /\ Len(level.speedZones) >= 2
    /\ C15_PairwiseSeparation

(***************************************************************************)
(* SpecTopUp: the coin top-up loop of generateCoins, fed by any random      *)
(* stream.  The loop starts from the coins the dead ends of the level's     *)
(* own grid gave; each iteration draws a cell from two values of the        *)
(* stream, and here the stream may deliver any cell of the grid.            *)
(***************************************************************************)
\* levels 1, 9 and 12: three or four coins wanted, one or none from dead ends
TopUpLevels == {1, 9, 12}

\* lines 28-385: the coins and the seed when the top-up loop is entered
coinsBeforeTopUp(num) ==
    Bind(levelGeometry(num), LAMBDA geo :
    Bind(generateMazeGrid(geo.cols, geo.rows, random(num * LevelSeedPrime, InitialSeed)),
         LAMBDA maze :
    Bind(generateHoles([holes |-> <<>>, seed |-> maze.seed, valid |-> FALSE],
                       getDifficulty(num).holes, geo), LAMBDA holes :
    Bind(deadEndCells(maze.grid, geo), LAMBDA deadEnds :
    Bind(shuffle(deadEnds, holes.seed), LAMBDA shuffled :
        [coins |-> deadEndCoins(<<>>, shuffled.items, 1,
                                Min(numCoinsOf(num), Len(deadEnds)), geo),
         seed  |-> shuffled.seed])))))

\* lines 390-391: the cell the next two values of the stream select
drawnCell(s, geo) ==
    [col |-> floorTimes(rng(s), geo.cols), row |-> floorTimes(rng2(s), geo.rows)]

\* the grid of the levels in TopUpLevels: 3 columns, 5 rows
TopUpGrid == levelGeometry(1)

\* for every cell of the grid, one state of the stream that draws it
StreamSeeds ==
    {CHOOSE s \in 0..(LcgModulus - 1) : drawnCell(s, TopUpGrid) = c :
        c \in Cells(TopUpGrid.cols, TopUpGrid.rows)}

InitTopUp ==
    /\ requested \in TopUpLevels
    /\ levelGeometry(requested).cols = TopUpGrid.cols
    /\ levelGeometry(requested).rows = TopUpGrid.rows
    /\ level = [id |-> requested, coins |-> coinsBeforeTopUp(requested).coins]
    /\ seed = coinsBeforeTopUp(requested).seed
    /\ generated = 0
    /\ pc = "generating"
    /\ cols = 0 /\ rows = 0 /\ grid = <<>> /\ stack = <<>> /\ passagesLeft = 0
    /\ EngineIdle

\* lines 388-411: one iteration of while (coins.length < numCoins)
TopUpDraw ==
    /\ pc = "generating"
    /\ Len(level.coins) < numCoinsOf(level.id)
    /\ \E s \in StreamSeeds :
        \E st \in {topUpCoin([coins |-> level.coins, seed |-> s],
                             levelGeometry(level.id))} :
            /\ level' = [level EXCEPT !.coins = st.coins]
            /\ seed' = st.seed
    /\ UNCHANGED <<requested, generated, pc, mazeCells, engineVars>>

\* lines 388 and 414: the loop condition fails and generateCoins returns
TopUpReturn ==
    /\ pc = "generating"
    /\ Len(level.coins) >= numCoinsOf(level.id)
    /\ pc' = "idle"
    /\ generated' = generated + 1
    /\ UNCHANGED <<seed, requested, level, mazeCells, engineVars>>

NextTopUp == TopUpDraw \/ TopUpReturn

\* the loop is the running code of a synchronous call: it keeps stepping
SpecTopUp == InitTopUp /\ [][NextTopUp]_vars /\ WF_vars(NextTopUp)

\* C16: whatever the random stream delivers, the coin top-up loop stops
\* after finitely many draws and generateCoins returns.
C16_TopUpTerminates == <>(pc = "idle" /\ generated = 1)

(***************************************************************************)
(* SpecLoad: the game screen loads a level of a pack whose definitions may *)
(* lack the goal, the start or every wall, runs it and is left again.      *)
(***************************************************************************)
\* a definition without goal, without start, without walls
withMissing(definition, noGoal, noStart, noWalls) ==
    [definition EXCEPT !.goal = IF noGoal THEN Undefined ELSE @,
                       !.start = IF noStart THEN Undefined ELSE @,
                       !.walls = IF noWalls THEN <<>> ELSE @]

LoadDefinitions ==
    {withMissing(PhysicsArena, noGoal, noStart, noWalls) :
        noGoal \in BOOLEAN, noStart \in BOOLEAN, noWalls \in BOOLEAN}

\* the packs: one definition or two
LoadPacks ==
    {<<a>> : a \in LoadDefinitions}
    \cup {<<a, b>> : a \in {PhysicsArena}, b \in LoadDefinitions}

\* this.selectedLevel: an index of the pack or one beside it
SelectedLevels == -1..2

\* the frame periods an exploration of SpecLoad lasts
MaxLoadTime == 2

\* loadLevel, lines 204-255, with what the call gives back: "false" for the
\* return at line 210, "true" for the one at line 254, "TypeError" when
\* resetBall reads start.x of a definition without start (line 261), which
\* leaves the assignments of lines 205-214 behind
loadLevelReturns(w, levelIndex) ==
    IF getLevelAt(w, levelIndex).name = "null"
    THEN emit(loadLevelAt(w, levelIndex),
              [name |-> "loadLevel", index |-> levelIndex, result |-> "false"])
    ELSE IF isUndefined(getLevelAt(w, levelIndex).start)
    THEN emit([w EXCEPT !.engine.levelIndex = levelIndex,
                        !.engine.currentLevel = getLevelAt(w, levelIndex),
                        !.engine.timeScale = NormalScale,
                        !.engine.timeWarpActive = FALSE,
                        !.engine.timeWarpUsed = FALSE],
              [name |-> "loadLevel", index |-> levelIndex, result |-> "TypeError"])
    ELSE emit(loadLevelAt(w, levelIndex),
              [name |-> "loadLevel", index |-> levelIndex, result |-> "true"])

\* UIManager.continueToGame, the timeout callback of lines 1121-1133
continueToGame(w, selectedLevel) ==
    Bind(loadLevelReturns(w, selectedLevel), LAMBDA loaded :
        IF loaded.events[Len(loaded.events)].result = "true" THEN start(loaded)
        ELSE loaded)

\* gameLoop on a definition without goal: update throws at line 654 when
\* the ball is in no hole, before the next frame is requested
gameLoopWithoutGoal(w, input, steps, deflect) ==
    IF frameSkipped(w) THEN w
    ELSE Bind(moveAt(w, input, steps, deflect), LAMBDA moved :
            IF checkHoleCollisionAt(moved.engine.ball, moved.engine.currentLevel.holes)
            THEN requestAnimationFrame(handleLose(moved))
            ELSE emit(moved, [name |-> "TypeError"]))

InitLoad ==
    /\ GeneratorIdle
    /\ \E pack \in LoadPacks :
        /\ engine = NewWorld(pack, 0).engine
        /\ browser = NewWorld(pack, 0).browser
        /\ storage = NewWorld(pack, 0).storage
    /\ events = <<>>
    /\ runningTime = 0

ContinueToGame(selectedLevel) ==
    /\ ~engine.isRunning
    /\ Becomes(continueToGame(This, selectedLevel))
    /\ UNCHANGED runningTime

LoadTick(input, steps, deflect) ==
    /\ engine.animationFrameId = "pending"
    /\ browser.now + steps <= MaxLoadTime
    /\ Becomes(IF isUndefined(engine.currentLevel.goal)
               THEN gameLoopWithoutGoal([This EXCEPT !.browser.frames = @ - 1,
                                                     !.browser.now = @ + steps,
                                                     !.engine.animationFrameId = "spent"],
                                        input, steps, deflect)
               ELSE gameLoopAt([This EXCEPT !.browser.frames = @ - 1,
                                            !.browser.now = @ + steps,
                                            !.engine.animationFrameId = "spent"],
                               input, steps, deflect, 0))
    /\ UNCHANGED runningTime

\* UIManager.quitGame: this.gameEngine.stop()
QuitGame ==
    /\ engine.isRunning
    /\ Becomes(stop(This))
    /\ UNCHANGED runningTime

NextLoad ==
    \/ \E selectedLevel \in SelectedLevels : ContinueToGame(selectedLevel)
    \/ \E input \in TiltInputs, steps \in 1..MaxSteps, deflect \in Deflections :
            LoadTick(input, steps, deflect)
    \/ QuitGame

SpecLoad == InitLoad /\ [][NextLoad]_vars

\* the definition lacks its goal, its start or every wall
malformed(definition) ==
    \/ isUndefined(definition.goal)
    \/ isUndefined(definition.start)
    \/ Len(definition.walls) = 0

\* C17: a loadLevel of an index out of range or of a definition without
\* goal, start or walls returns false, and the engine never runs on such a
\* definition.
C17_MalformedAborts ==
    /\ \A i \in 1..Len(events) :
        (/\ events[i].name = "loadLevel"
         /\ \/ getLevelAt(This, events[i].index).name = "null"
            \/ malformed(getLevelAt(This, events[i].index)))
        => events[i].result = "false"
    /\ (engine.isRunning /\ hasLevel(This)) => ~malformed(engine.currentLevel)

(***************************************************************************)
(* SpecPlay: a session on a level with everything in it.  Next to the      *)
(* goal in the top right corner lie a hole that overlaps it, a coin, an     *)
(* extra life, a shrink powerup, a bounce pad and a fast zone, so that a    *)
(* ball that falls or wins there is in reach of all of them; a slow-motion  *)
(* powerup and a coin lie near the start, a moving wall on the floor.  The  *)
(* player may own the Coin Magnet (80 pixels).                              *)
(***************************************************************************)
PlayArena ==
    [name |-> "play", width |-> 14400, height |-> 7200, ballRadius |-> 1200,
     start |-> [x |-> 1200, y |-> 6000],
     goal |-> [x |-> 13200, y |-> 1400, radius |-> 1400],
     walls |-> <<[x |-> 6800, y |-> 0, width |-> 800, height |-> 4000]>>,
     holes |-> <<[x |-> 1200, y |-> 1200, radius |-> 1200],
                 [x |-> 13200, y |-> 2200, radius |-> 1300]>>,
     coins |-> <<[x |-> 5000, y |-> 6000], [x |-> 12300, y |-> 2000]>>,
     extraLives |-> <<[x |-> 13200, y |-> 2600]>>,
     powerups |-> <<[x |-> 3400, y |-> 6000, type |-> "slow_motion", radius |-> 1400],
                    [x |-> 13000, y |-> 2200, type |-> "shrink", radius |-> 1400]>>,
     bouncePads |-> <<[x |-> 13200, y |-> 2200, width |-> 2500, height |-> 1000,
                       direction |-> "up", force |-> 1500]>>,
     speedZones |-> <<[x |-> 11000, y |-> 0, width |-> 3400, height |-> 4000,
                       type |-> "fast", multiplier |-> 20]>>,
     movingWalls |-> <<[originalX |-> 9000, originalY |-> 6400, width |-> 800,
                        height |-> 800, direction |-> "horizontal", range |-> 1000]>>,
     starTimes |-> <<2, 1, 0>>]

\* where the ball is when the exploration begins: on the start, beside the
\* coin near it, left of the goal, below the hole that overlaps the goal
PlayBalls ==
    {[x |-> 1200, y |-> 6000], [x |-> 2600, y |-> 6000],
     [x |-> 11000, y |-> 1400], [x |-> 13200, y |-> 3400]}
PlaySpeeds == {-600, 0, 600}
PlayDeflections == {[x |-> -100, y |-> -100], [x |-> 100, y |-> 100]}
PlaySwings == {0, 1}
MagnetRadii == {0, 8000}
\* getTilt(): level, or tilted to one side
PlayTilts == {input \in TiltInputs : input.x = 0 \/ input.y = 0}

\* the frame periods an exploration of SpecPlay lasts
MaxPlayTime == 2

InitPlay ==
    /\ GeneratorIdle
    /\ \E at \in PlayBalls, bvx \in PlaySpeeds, bvy \in PlaySpeeds,
          magnetRadius \in MagnetRadii :
        \E begun \in {start(loadLevelAt(NewWorld(<<PlayArena>>, magnetRadius), 0))} :
            /\ engine = [begun.engine EXCEPT !.ball.x = at.x, !.ball.y = at.y,
                                             !.ball.vx = bvx, !.ball.vy = bvy]
            /\ ~checkHoleCollisionAt(engine.ball, PlayArena.holes)
            /\ ~checkGoalCollisionAt(engine.ball, PlayArena.goal)
            /\ browser = begun.browser
            /\ storage = begun.storage
    /\ events = <<>>
    /\ runningTime = 0

\* the frame that animationFrameId names, before gameLoop runs in it
frameBegun(w, steps) ==
    [w EXCEPT !.browser.frames = @ - 1,
              !.browser.now = @ + steps,
              !.engine.animationFrameId = "spent"]

PlayTick(input, steps, deflect, swing) ==
    /\ engine.animationFrameId = "pending"
    /\ browser.now + steps <= MaxPlayTime
    /\ Becomes(gameLoopAt(frameBegun(This, steps), input, steps, deflect, swing))
    /\ UNCHANGED runningTime

\* the restart button, and RETRY after a fall
PlayRestart ==
    /\ hasLevel(This)
    /\ Becomes(restartAt(This))
    /\ UNCHANGED runningTime

\* the level is chosen again after the session has ended
PlayAgain ==
    /\ ~engine.isRunning
    /\ Becomes(continueToGame(This, 0))
    /\ UNCHANGED runningTime

NextPlay ==
    \/ \E input \in PlayTilts, steps \in 1..MaxSteps, deflect \in PlayDeflections,
          swing \in PlaySwings : PlayTick(input, steps, deflect, swing)
    \/ PlayRestart
    \/ PlayAgain
    \/ \E type \in PowerupTypes, own \in BOOLEAN : PowerupTimeout(type, own)

SpecPlay == InitPlay /\ [][NextPlay]_vars

\* the step loaded the level successfully
levelLoaded ==
    \E i \in 1..Len(events) : events[i].name = "loadLevel" /\ events[i].result = "true"

\* C18: whatever the session does (pickups, magnet pulls, powerups, moving
\* walls, restarts, wins, losses, loads), the definition that the
\* LevelManager holds stays the one it was created as, and a load gives the
\* runtime lists the definition's original items.
C18_DefinitionKept ==
    /\ engine.levelManager.levels = <<PlayArena>>
    /\ levelLoaded =>
        /\ engine.levelCoins.items = PlayArena.coins
        /\ engine.levelExtraLives.items = PlayArena.extraLives
        /\ engine.levelPowerups.items = uncollected(PlayArena.powerups)
        /\ engine.levelMovingWalls.items = atRest(PlayArena.movingWalls)
        /\ engine.levelBouncePads.items = PlayArena.bouncePads
        /\ engine.levelSpeedZones.items = PlayArena.speedZones

\* with the Coin Magnet: one coin collected, the other pulled off its place,
\* the moving wall swung out, and the definition as created
C18_Witness ==
    /\ storage.magnetRadius > 0
    /\ Len(engine.levelCoins.items) = 1
    /\ engine.levelCoins.items[1] \notin {PlayArena.coins[1], PlayArena.coins[2]}
    /\ engine.levelMovingWalls.items[1].currentX # PlayArena.movingWalls[1].originalX
    /\ engine.levelManager.levels = <<PlayArena>>

\* the callbacks of the step include one of this name
emitted(sent, name) == \E i \in 1..Len(sent) : sent[i].name = name

\* C20: in a tick, a resolved position that satisfies the hole test gives a
\* loss, also when it satisfies the goal test; a tick that ends in a loss
\* or a win leaves coins, extra lives, powerups, moving walls, active
\* powerups, time scale and the ball (as the move left it) alone and calls
\* no pickup or bounce pad callback; no tick gives both a win and a loss.
C20_HoleBeforeGoal ==
    [][(browser'.now # browser.now /\ engine.isRunning /\ ~engine.isPaused) =>
        /\ checkHoleCollisionAt(engine'.ball, engine.currentLevel.holes)
            => emitted(events', "onLifeLost") /\ ~emitted(events', "onWin")
        /\ ~(emitted(events', "onLifeLost") /\ emitted(events', "onWin"))
        /\ (emitted(events', "onLifeLost") \/ emitted(events', "onWin")) =>
            /\ engine'.levelCoins = engine.levelCoins
            /\ engine'.coinsCollectedThisLevel = engine.coinsCollectedThisLevel
            /\ engine'.levelExtraLives = engine.levelExtraLives
            /\ engine'.levelPowerups = engine.levelPowerups
            /\ engine'.levelMovingWalls = engine.levelMovingWalls
            /\ engine'.activePowerups = engine.activePowerups
            /\ engine'.timeScale = engine.timeScale
            /\ storage'.lives = IF emitted(events', "onWin") THEN storage.lives
                                ELSE loseLife(storage.lives)
            /\ ~emitted(events', "onCoinCollected")
            /\ ~emitted(events', "onLifeCollected")
            /\ ~emitted(events', "bumper")
            /\ \E input \in PlayTilts, steps \in 1..MaxSteps, deflect \in PlayDeflections :
                    engine'.ball = moveAt(frameBegun(This, steps), input, steps,
                                          deflect).engine.ball]_vars

\* a fall at a position inside the goal as well, in reach of the coin, the
\* extra life and the shrink powerup, on the bounce pad, in the fast zone
C20_Witness ==
    /\ emitted(events, "onLifeLost")
    /\ ~engine.isRunning
    /\ checkHoleCollisionAt(engine.ball, PlayArena.holes)
    /\ checkGoalCollisionAt(engine.ball, PlayArena.goal)
    /\ distance2(engine.ball, PlayArena.extraLives[1])
        < (engine.ball.radius + ExtraLifeRadius) * (engine.ball.radius + ExtraLifeRadius)
    /\ Len(engine.levelExtraLives.items) = 1
    /\ ~engine.levelPowerups.items[2].collected

\* the farthest a ball can get in `steps` frame periods scaled by timeScale
\* (in tenths), at maxSpeed all the way
reach(steps, timeScale) == (MaxSpeed * steps * timeScale) \div 10

\* C21: a tick that hits no wall moves the ball as a step of the scaled
\* delta does: by no more than maxSpeed * 60 * deltaTime * timeScale.
C21_ScaledStep ==
    [][(/\ browser'.now # browser.now
        /\ engine.isRunning /\ ~engine.isPaused
        /\ ~emitted(events', "onWallHit"))
        => (engine'.ball.x - engine.ball.x) * (engine'.ball.x - engine.ball.x)
            + (engine'.ball.y - engine.ball.y) * (engine'.ball.y - engine.ball.y)
            <= reach(browser'.now - browser.now, engine.timeScale)
                * reach(browser'.now - browser.now, engine.timeScale)]_vars

(***************************************************************************)
(* SpecClock: the frame clock of the game loop.  The engine of the         *)
(* corridor model with this.lastFrameTime; time in fortieths of a second.   *)
(* In this specification runningTime is a record:                          *)
(*   unpaused  the time the session has been running and not paused since  *)
(*             the loop last sampled the clock (start, resume, a tick);     *)
(*   paused    the time it has been paused since the last pause().         *)
(***************************************************************************)
\* Math.min(..., 0.05): two fortieths
FrameCap == 2

\* the fortieths of a second an exploration of SpecClock lasts
MaxClockTime == 4

\* start, lines 289-321, with line 306: this.lastFrameTime = performance.now()
startSampled(w) ==
    IF w.engine.isRunning THEN w
    ELSE [start(w) EXCEPT !.engine.lastFrameTime = w.browser.now]

\* a resume that leaves lastFrameTime as the last tick set it
resumeUnsampled(w) == resume(w)

\* resume, lines 334-344, with line 339
resumeSampled(w) ==
    IF ~w.engine.isRunning \/ ~w.engine.isPaused THEN w
    ELSE [resume(w) EXCEPT !.engine.lastFrameTime = w.browser.now]

\* restart, lines 360-366
restartSampled(w) == startSampled(resetBall(stop(w)))

\* gameLoop, lines 387-402; the timestamp is the browser's clock
gameLoopSampled(w, tilt, offset) ==
    IF frameSkipped(w) THEN w
    ELSE requestAnimationFrame(
            update(emit([w EXCEPT !.engine.lastFrameTime = w.browser.now],
                        [name |-> "update",
                         deltaTime |-> Min(w.browser.now - w.engine.lastFrameTime,
                                           FrameCap)]),
                   tilt, offset))

InitClock ==
    /\ GeneratorIdle
    /\ engine = [lastFrameTime |-> 0] @@ NewEngine
    /\ browser = NewBrowser
    /\ storage = NewStorage(FALSE)
    /\ events = <<>>
    /\ runningTime = [unpaused |-> 0, paused |-> 0]

ClockStart ==
    /\ hasLevel(This)
    /\ Becomes(startSampled(This))
    /\ runningTime' = IF engine.isRunning THEN runningTime
                      ELSE [unpaused |-> 0, paused |-> 0]

ClockPause ==
    /\ hasLevel(This)
    /\ Becomes(pause(This))
    /\ runningTime' = IF engine.isRunning /\ ~engine.isPaused
                      THEN [runningTime EXCEPT !.paused = 0] ELSE runningTime

ClockResume ==
    /\ hasLevel(This)
    /\ Becomes(resumeSampled(This))
    /\ runningTime' = IF engine.isRunning /\ engine.isPaused
                      THEN [runningTime EXCEPT !.unpaused = 0] ELSE runningTime

ClockRestart ==
    /\ hasLevel(This)
    /\ Becomes(restartSampled(This))
    /\ runningTime' = [unpaused |-> 0, paused |-> 0]

\* the browser runs a requested frame: the one animationFrameId names
\* (tracked) or an earlier one whose id the engine has overwritten
ClockFrame(tracked, tilt) ==
    /\ IF tracked
       THEN engine.animationFrameId = "pending"
       ELSE browser.frames > (IF engine.animationFrameId = "pending" THEN 1 ELSE 0)
    /\ Becomes(gameLoopSampled([This EXCEPT
                                    !.browser.frames = @ - 1,
                                    !.engine.animationFrameId =
                                        IF tracked THEN "spent" ELSE @],
                               tilt, 0))
    /\ runningTime' = IF frameSkipped(This) THEN runningTime
                      ELSE [runningTime EXCEPT !.unpaused = 0]

\* a fortieth of a second passes
ClockAdvance ==
    /\ browser.now < MaxClockTime
    /\ browser' = [browser EXCEPT !.now = @ + 1]
    /\ runningTime' =
        IF ~engine.isRunning THEN runningTime
        ELSE IF engine.isPaused THEN [runningTime EXCEPT !.paused = @ + 1]
        ELSE [runningTime EXCEPT !.unpaused = @ + 1]
    /\ events' = <<>>
    /\ UNCHANGED <<engine, storage, genVars, mazeVars>>

NextClock ==
    \/ LoadLevel(1)
    \/ ClockStart
    \/ ClockPause
    \/ ClockResume
    \/ Stop
    \/ ClockRestart
    \/ \E tracked \in BOOLEAN, tilt \in Tilts : ClockFrame(tracked, tilt)
    \/ ClockAdvance

SpecClock == InitClock /\ [][NextClock]_vars

\* C22: the delta-time that a tick passes to update() is the time the
\* session has been running unpaused since the loop last sampled the clock
\* (at start, at resume, at the tick before), capped at 0.05 s: it holds
\* nothing of a paused interval.
C22_NoCatchUp ==
    [][\A i \in 1..Len(events') :
        events'[i].name = "update" =>
            /\ events'[i].deltaTime <= FrameCap
            /\ events'[i].deltaTime = Min(runningTime.unpaused, FrameCap)]_vars

\* a tick whose delta-time is shorter than the pause that went before it
C22_Witness ==
    /\ Len(events) > 0
    /\ events[1].name = "update"
    /\ events[1].deltaTime >= 1
    /\ runningTime.paused > events[1].deltaTime
    /\ engine.isRunning /\ ~engine.isPaused

\* the arguments of the onCoinCollected callbacks of a step, in order
coinReports(sent) ==
    SelectSeq([i \in 1..Len(sent) |->
                  IF sent[i].name = "onCoinCollected" THEN sent[i].arg ELSE 0],
              LAMBDA arg : arg > 0)

\* C23: after every step of a session the coins collected and the coins
\* left add up to the coins of the definition; a tick takes each coin it
\* removes off the list once, counts it once and reports the new total;
\* the counter never goes down in a tick.
C23_CoinConservation ==
    [][/\ hasLevel([engine |-> engine']) =>
            engine'.coinsCollectedThisLevel + Len(engine'.levelCoins.items)
                = Len(engine'.currentLevel.coins)
       /\ browser'.now # browser.now =>
            /\ engine'.coinsCollectedThisLevel >= engine.coinsCollectedThisLevel
            /\ Len(engine.levelCoins.items) - Len(engine'.levelCoins.items)
                = engine'.coinsCollectedThisLevel - engine.coinsCollectedThisLevel
            /\ coinReports(events')
                = [i \in 1..(engine'.coinsCollectedThisLevel
                                - engine.coinsCollectedThisLevel) |->
                        engine.coinsCollectedThisLevel + i]]_vars

\* one coin collected and reported, the other still on the level
C23_Witness ==
    /\ engine.coinsCollectedThisLevel = 1
    /\ Len(engine.levelCoins.items) = 1
    /\ coinReports(events) = <<1>>

(***************************************************************************)
(* SpecBoost: a session on the level with the slow-motion and the          *)
(* speed-boost powerup; no time_control, the clock is not observed.        *)
(***************************************************************************)
InitBoost ==
    /\ GeneratorIdle
    /\ EngineIdle

NextBoost ==
    \/ LoadLevel(2)
    \/ Start
    \/ Restart
    \/ Frame
    \/ \E type \in PowerupTypes, own \in BOOLEAN : PowerupTimeout(type, own)

SpecBoost == InitBoost /\ [][NextBoost]_vars

\* C24: after a tick that ran to its end (the session is still running)
\* with no time warp active, timeScale is 0.4 if the slow_motion effect is
\* active and 1.0 if it is not, whatever other effects are active.
C24_TimeScaleDerived ==
    [][(/\ Frame
        /\ ~frameSkipped(This)
        /\ engine'.isRunning
        /\ ~engine'.timeWarpActive)
        => engine'.timeScale =
                IF engine'.activePowerups["slow_motion"].active
                THEN SlowScale ELSE NormalScale]_vars

\* every spawn of the type on the level has its collected flag set
allCollected(e, type) ==
    \A i \in DOMAIN e.levelPowerups :
        e.levelPowerups[i].type = type => e.levelPowerups[i].collected

\* C25: an effect that a pickup activated stays active until the timer of
\* the most recent pickup of its type fires: a step that ends the effect
\* and leaves its entry in place is the run of that entry's own timer; and
\* when every spawn of a type is collected, and stays so, no step
\* activates the effect again.
C25_EffectLifetime ==
    [][\A type \in PowerupTypes :
        /\ (/\ engine.activePowerups[type].active
            /\ engine'.activePowerups[type].present
            /\ ~engine'.activePowerups[type].active)
            => (engine.activePowerups[type].timer /\ ~engine'.activePowerups[type].timer)
        /\ (allCollected(engine, type) /\ allCollected(engine', type))
            => (engine'.activePowerups[type].active => engine.activePowerups[type].active)]_vars

(***************************************************************************)
(* The shape of the carved grid (SpecMaze)                                 *)
(***************************************************************************)
allVisited(g, ncols, nrows) ==
    \A c \in Cells(ncols, nrows) : g[c.row][c.col].visited

\* the while loop of generateMazeGrid has ended and no extra passage has
\* been drawn yet
carved == pc = "extra" /\ passagesLeft = extraPassages(cols, rows)

\* C26: when the carving loop ends, for any cols, rows >= 1 and any random
\* stream, every cell is visited, exactly cols*rows - 1 passages are open
\* and every cell is reached from the start cell: the passages are a
\* spanning tree of the cells.
C26_PerfectMaze ==
    carved =>
        /\ allVisited(grid, cols, rows)
        /\ Cardinality(Passages(grid, cols, rows)) = cols * rows - 1
        /\ Bfs(grid, {StartCell(cols, rows)}, cols, rows) = Cells(cols, rows)

\* a carved grid of three rows and three columns whose first row is not a
\* straight corridor
C26_Witness ==
    /\ carved
    /\ cols = 3 /\ rows = 3
    /\ grid[0][1].walls.left
    /\ Cardinality(Passages(grid, cols, rows)) = 8

\* the two flags of every wall between neighbours agree
wallsSymmetric(g, ncols, nrows) ==
    \A c \in Cells(ncols, nrows) :
        /\ c.col < ncols - 1 =>
                g[c.row][c.col].walls.right = g[c.row][c.col + 1].walls.left
        /\ c.row < nrows - 1 =>
                g[c.row][c.col].walls.bottom = g[c.row + 1][c.col].walls.top

\* the flags on the outer border are set
borderIntact(g, ncols, nrows) ==
    \A c \in Cells(ncols, nrows) :
        /\ c.row = 0 => g[c.row][c.col].walls.top
        /\ c.row = nrows - 1 => g[c.row][c.col].walls.bottom
        /\ c.col = 0 => g[c.row][c.col].walls.left
        /\ c.col = ncols - 1 => g[c.row][c.col].walls.right

\* C30: after the carving and after every extra passage the two flags of
\* each wall between neighbouring cells agree, and no flag on the outer
\* border of the grid has been cleared.
C30_WallsSymmetric ==
    pc \in {"extra", "done"} =>
        /\ wallsSymmetric(grid, cols, rows)
        /\ borderIntact(grid, cols, rows)

\* all extra passages drawn, one of them opened a wall of the carved maze
C30_Witness ==
    /\ pc = "extra" /\ passagesLeft = 0
    /\ extraPassages(cols, rows) > 0
    /\ cols > 1 /\ rows > 1
    /\ Cardinality(Passages(grid, cols, rows)) = cols * rows
    /\ wallsSymmetric(grid, cols, rows)

\* C27: under any sequence of start, pause, resume, stop, restart,
\* loadLevel and ticks, isPaused implies isRunning; the browser holds one
\* interval of the engine when isRunning and not isPaused, and none
\* otherwise; and start() while running, pause() while not running or
\* already paused, and resume() while not paused change nothing.
C27_SessionConsistent ==
    /\ engine.isPaused => engine.isRunning
    /\ browser.intervals = IF engine.isRunning /\ ~engine.isPaused THEN 1 ELSE 0
    /\ engine.timerInterval <=> browser.intervals > 0
    /\ engine.isRunning => start(This) = This
    /\ (~engine.isRunning \/ engine.isPaused) => pause(This) = This
    /\ ~engine.isPaused => resume(This) = This

\* a paused session after a fall that cost a life and a new start: no
\* interval
C27_Witness ==
    /\ engine.isRunning /\ engine.isPaused
    /\ browser.intervals = 0
    /\ storage.lives < DefaultLives
    /\ browser.now > 0

\* C28: at most one animation-frame callback of the game loop is pending
\* at any time, under any sequence of start, pause, resume, stop, restart,
\* loadLevel and ticks, the ticks in which update() ends the attempt and a
\* later start() included.
C28_OneFramePending ==
    browser.frames <= 1

\* C29: losing a life never adds lives: a fall stores and reports
\* max(0, n - 1) for the stored count n, a fall at 0 lives leaves 0 and
\* reports game over, and the count stays within 0..maxLives.
C29_LoseLifeNeverAdds ==
    [][/\ storage'.lives \in 0..MaxLives
       /\ emitted(events', "onLifeLost") =>
            /\ storage'.lives = Max(0, storage.lives - 1)
            /\ storage.lives = 0 => emitted(events', "onGameOver")]_vars

====
